---- MODULE Spec2Model ----
(***************************************************************************)
(* Verification model of the archive plugin backend:                       *)
(*   - InputDirectoryHandler (backend/main.py): create-event intake, the   *)
(*     in-flight sets, the bounded worker pool, settle loop, timeout;      *)
(*   - process_document / process_folder (backend/utils.py): the ingestion *)
(*     coroutines running on the handler's event loop;                     *)
(*   - schedule_reconciliation / _run_reconciliation_worker and the        *)
(*     /reconcile endpoint: debounced, coalesced reconciliation passes;    *)
(*   - reconcile_filesystem_with_chroma: the diff between archive files    *)
(*     and index ids;                                                      *)
(*   - ArchiveDirectoryHandler: incremental index maintenance.             *)
(***************************************************************************)
EXTENDS Integers, Sequences, FiniteSets, TLC

(***************************************************************************)
(* Bounds of the model                                                     *)
(***************************************************************************)
MaxTasks == 2      \* worker-pool tasks ever submitted
MaxEvents == 3     \* create events delivered to the input handler
MaxEnv == 2        \* changes made to the input root by the environment
MaxSize == 1       \* largest file size
MaxSuffix == 1     \* largest numeric suffix tried by _ensure_unique_relative_path
MaxTrig == 2       \* schedule_reconciliation calls after the startup one
MaxArEnv == 2      \* changes made to the archive root by the environment
MaxReq == 2        \* requests to the /reconcile endpoint
MaxOverlap == 1    \* requests to the endpoint while the worker threads run
MaxPad == 8        \* plain leading segments of a path suggestion
MaxSugLen == 3     \* further segments of a path suggestion
MaxRestarts == 3   \* calls of restart_file_watcher
MaxWatchEvents == 2 \* filesystem events while the watchers are restarted

(***************************************************************************)
(* Program constants                                                       *)
(***************************************************************************)
max_workers == 3

\* tasks already in the worker pool where the pool is studied: one worker is free
Earlier == max_workers - 1
MAX_FOLDER_PATH_DEPTH == 7

None == <<>>          \* Python None for a path-valued result
Absent == 0 - 1       \* size of a path that does not exist

(***************************************************************************)
(* Paths.  An input path is a sequence of tokens relative to the input     *)
(* root, "/" being a token of its own, so that str.startswith is the       *)
(* prefix relation on token sequences.                                     *)
(***************************************************************************)
DirD == <<"d">>
FileDF == <<"d", "/", "f", ".txt">>
FileG == <<"g", ".txt">>
InDirs == {DirD}
InFiles == {FileDF, FileG}
InPaths == InDirs \cup InFiles

\* a sub-directory of d, and a file beside d whose name begins with "d"
DirDS == <<"d", "/", "s">>
FileD2 == <<"d", "2", ".txt">>
AllInDirs == InDirs \cup {DirDS}
AllInFiles == InFiles \cup {FileD2}
AllInPaths == AllInDirs \cup AllInFiles

DOCUMENT_EXTENSIONS ==
  {".pdf", ".txt", ".md", ".rtf", ".ppt", ".pptx", ".doc", ".docx", ".xls", ".xlsx", ".csv"}
IMAGE_EXTENSIONS == {".jpg", ".jpeg", ".png", ".gif", ".webp", ".heic", ".heif"}

StartsWith(p, q) == Len(q) <= Len(p) /\ SubSeq(p, 1, Len(q)) = q

Slashes(p) == {i \in 1..Len(p) : p[i] = "/"}

LastSlash(p) == IF Slashes(p) = {} THEN 0
                ELSE CHOOSE i \in Slashes(p) : \A j \in Slashes(p) : j <= i

Dirname(p) == IF LastSlash(p) = 0 THEN <<>> ELSE SubSeq(p, 1, LastSlash(p) - 1)

Basename(p) == SubSeq(p, LastSlash(p) + 1, Len(p))

IsHiddenName(n) == Len(n) > 0 /\ n[1] = "."

IsTempName(p) == p[Len(p)] \in {".tmp", ".crdownload"}

\* q lies strictly beneath directory d
IsUnder(q, d) == Len(q) > Len(d) + 1 /\ StartsWith(q, d \o <<"/">>)

(***************************************************************************)
(* Archive paths: a sequence of segments, a segment being a name with the  *)
(* numeric suffix appended by the collision policy (k = 0: no suffix).     *)
(***************************************************************************)
Seg(n, k) == [n |-> n, k |-> k]

DirFin == <<Seg(<<"Fin">>, 0)>>
DirPho == <<Seg(<<"Pho">>, 0)>>
ArchDirs == {DirFin, DirPho}

\* files the archive holds, or comes to hold by hand, besides ingested ones
FinA == DirFin \o <<Seg(<<"a", ".txt">>, 0)>>
PhoB == DirPho \o <<Seg(<<"b", ".jpg">>, 0)>>
ArchFiles == {FinA, PhoB}

\* where the archive's files and directories are moved to by hand: another
\* directory of the archive, or a place outside ARCHIVE_DIR
DirDoc == <<Seg(<<"Doc">>, 0)>>
Outside == <<Seg(<<"..">>, 0)>>
MoveTargets == ArchDirs \cup {DirDoc, Outside}
\* every place a file of the model can be moved to within the archive
MovedFiles == {d \o <<f[Len(f)]>> : d \in ArchDirs \cup {DirDoc}, f \in ArchFiles}

\* paths the archive watcher is to ignore, and one it is not
DirChroma == <<Seg(<<".chromadb">>, 0)>>
DirTemp == <<Seg(<<"temp_", "my", "_", "d", "_", "1700">>, 0)>>
DirTempSub == DirTemp \o <<Seg(<<"s">>, 0)>>
DirTempLike == <<Seg(<<"temp_", "d", "_", "x">>, 0)>>
NameA == Seg(<<"a", ".txt">>, 0)
NameDot == Seg(<<".", "h", ".txt">>, 0)
WatchedDirs == {DirChroma, DirTemp, DirTempSub, DirTempLike, DirFin}
WatchedFiles == {d \o <<NameA>> : d \in WatchedDirs} \cup {DirFin \o <<NameDot>>}

VARIABLES
  inFS,                     \* input root: path -> size, Absent when missing
  processing_files,         \* InputDirectoryHandler.processing_files
  processing_folders,       \* InputDirectoryHandler.processing_folders
  folders_being_processed,  \* InputDirectoryHandler.folders_being_processed
  queue,                    \* worker_pool work queue (task ids, FIFO)
  task,                     \* worker-pool tasks: id -> record
  pipe,                     \* ingestion coroutines on the handler loop: id -> record
  nTasks, nEvents, nEnv,    \* counters bounding the model
  lastEvent,                \* the create event handled last and what became of it
  archive,                  \* archive root: set of [path, size] of visible files
  index,                    \* VectorIndex: set of ids
  faults,                   \* an index operation has failed at some time
  pending,                  \* main._reconciliation_pending
  running,                  \* main._reconciliation_running
  timerRef,                 \* main._reconciliation_timer (0: None)
  thr,                      \* timer threads, each running _dispatch: id -> record
  pass,                     \* executions of reconcile_filesystem_with_chroma:
                            \*   executor (timer thread, or 0: the endpoint) -> record
  arEvents,                 \* events queued for the ArchiveDirectoryHandler
  nTrig, nArEnv, nReq,      \* counters bounding the model
  dirty,                    \* archive or index changed since the last pass ended
  lastPass,                 \* the pass that ended last
  burst,                    \* triggers received while a worker pass was running
  owed,                     \* directories whose delete event awaits a worker pass
  moved,                    \* what on_moved did for the move event handled last
  plan,                     \* a path suggestion and the placement planned from it
  cache,                    \* utils._DIRECTORY_CONTEXT_CACHE and the request served last
  observer,                 \* the thread that runs the archive handler's callbacks
  search,                   \* GET /query: the indexed-path cache and the last ranking
  upload,                   \* POST /upload: process_document on the server's thread
  context,                  \* the placement context last built, as lengths
  planner,                  \* PathPlanner.decide: its inputs, its anchor, its output
  handled,                  \* history: the archive event last handled, the index before
  merge,                    \* a folder of the input root on its way through process_folder
  watchers                  \* main.global_observer and the other globals of the watchers

inputVars == <<inFS, processing_files, processing_folders, folders_being_processed,
               queue, task, pipe, nTasks, nEvents, nEnv, lastEvent>>
storeVars == <<archive, index, faults>>
lifeVars == <<merge, watchers>>
serviceVars == <<search, upload, context, planner, handled, lifeVars>>
histVars == <<burst, owed>>
reconCore == <<pending, running, timerRef, thr, pass, arEvents, nTrig, nArEnv, nReq,
               dirty, lastPass, histVars, moved, plan, observer>>
reconButCache == <<reconCore, serviceVars>>
reconVars == <<reconButCache, cache>>
vars == <<inputVars, storeVars, reconVars>>

TaskIds == 1..(MaxTasks + Earlier)

NoTask == [path |-> <<>>, kind |-> "none", pc |-> "none",
           initial_size |-> 0 - 1, current_size |-> 0,
           result |-> None, outcome |-> "", removed |-> FALSE]
NoPipe == [pc |-> "none", result |-> None, dir |-> <<>>, dest |-> <<>>, size |-> 0,
           copied |-> {}, saved |-> FALSE, indexed |-> FALSE]

Exists(p) == inFS[p] # Absent

ArchivePaths == {r.path : r \in archive}

InitInput ==
  /\ inFS = [p \in AllInPaths |-> Absent]
  /\ processing_files = {}
  /\ processing_folders = {}
  /\ folders_being_processed = {}
  /\ queue = <<>>
  /\ task = [i \in TaskIds |-> NoTask]
  /\ pipe = [i \in TaskIds |-> NoPipe]
  /\ nTasks = 0
  /\ nEvents = 0
  /\ nEnv = 0
  /\ lastEvent = [path |-> <<>>, outcome |-> "none"]

InitStore ==
  /\ archive = {}
  /\ index = {}
  /\ faults = FALSE

ThreadIds == 1..(MaxTrig + 1)
Executors == 0..(MaxTrig + 1)

NoThread == [pc |-> "unborn"]
\* value: the cache holds a context; young: it was built less than the TTL
\* ago; behind: the archive watcher has written the index since it was built;
\* served, served_behind: how the last request was answered
NoCache == [value |-> FALSE, young |-> FALSE, behind |-> FALSE,
            served |-> "none", served_behind |-> FALSE]
NoHandled == [event |-> [kind |-> "none", is_directory |-> FALSE, src_path |-> <<>>,
                         dest_path |-> <<>>],
              index |-> {}]

\* a call of restart_file_watcher makes the observers of one generation
Gens == 1..MaxRestarts

\* config.Settings has no attribute WATCH_INPUT_DIR (config.py 13-71); the
\* module globals of main.py 31-36 are None (0)
NoWatchers ==
  [WATCH_INPUT_DIR |-> "unset", calls |-> 0, raised |-> FALSE,
   global_observer |-> 0, global_archive_observer |-> 0,
   input |-> [g \in Gens |-> "none"], archive |-> [g \in Gens |-> "none"],
   pool |-> [g \in Gens |-> "none"], events |-> <<>>]

\* no folder is on its way through process_folder
NoMerge == [pc |-> "none", files |-> {}, temp |-> {}, present |-> FALSE,
            result |-> None, skipped |-> {}]

\* the last decision of the PathPlanner; a path is a sequence of segments
NoPlanner == [pc |-> "none", existingDirectories |-> {}, suggestion |-> <<>>,
              summary |-> {}, filename |-> {}, anchor |-> <<>>, output |-> <<>>]

\* what _build_directory_context_payload read and what came of it; the
\* archive holds one directory with indexed and unindexed files, the index
\* db_only ids besides, every path path_len characters long
NoContent == [indexed |-> 0, unindexed |-> 0, db_only |-> 0, path_len |-> 0]
NoContext == [pc |-> "none", content |-> NoContent, preset |-> "none", chars |-> 0]

\* the request POST /upload is serving; overwrote: save_file wrote over a file
NoUpload == [pc |-> "none", filename |-> <<>>, dir |-> <<>>, dest |-> <<>>,
             overwrote |-> FALSE, result |-> <<>>]

\* endpoints._INDEXED_PATH_CACHE (paths, and whether it is within its TTL) and
\* the last call of _rank_search_results: its arguments, the ranked list
\* before it is cut, the paths returned, the paths that existed then
NoSearch == [paths |-> {}, fresh |-> FALSE, pc |-> "none", query_text |-> <<>>,
             n_results |-> 0, ranked |-> <<>>, results |-> <<>>, existed |-> {}]
\* the observer thread between two callbacks; "index_call": inside a call of
\* chroma_service made by the callback it is running
IdleObserver == [pc |-> "idle"]
NoPlan == [pc |-> "none", kind |-> "none", suggested_path |-> <<>>, filename |-> <<>>,
           sanitized |-> <<>>, final_path |-> <<>>]
NoBurst == [open |-> FALSE, n |-> 0, since |-> 0, served |-> 0]
NoLastPass == [ended |-> FALSE, allOk |-> FALSE, quiet |-> FALSE, wrote |-> FALSE]
NoPass == [pc |-> "idle", fs |-> {}, idx |-> {}, idxOk |-> TRUE,
           added_count |-> 0, removed_count |-> 0,
           upserts |-> {}, upserted |-> {}, deletes |-> {}, deleted |-> {},
           afterClean |-> FALSE, disturbed |-> FALSE, serves |-> {}]

\* schedule_reconciliation (main.py 142-159) has been called once and its
\* timer is armed, as after lifespan's call with reason="startup" (301) or
\* after the archive watcher's first call for a deleted directory
InitRecon ==
  /\ pending = TRUE
  /\ running = FALSE
  /\ timerRef = 1
  /\ thr = [t \in ThreadIds |-> IF t = 1 THEN [pc |-> "armed"] ELSE NoThread]
  /\ pass = [e \in Executors |-> NoPass]
  /\ arEvents = <<>>
  /\ nTrig = 0
  /\ nArEnv = 0
  /\ nReq = 0
  /\ dirty = FALSE
  /\ lastPass = NoLastPass
  /\ burst = NoBurst
  /\ owed = {}
  /\ moved = {}
  /\ plan = NoPlan
  /\ observer = IdleObserver
  /\ search = NoSearch
  /\ upload = NoUpload
  /\ context = NoContext
  /\ planner = NoPlanner
  /\ handled = NoHandled
  /\ merge = NoMerge
  /\ watchers = NoWatchers
  /\ cache = NoCache

(***************************************************************************)
(* The input root as the environment changes it                            *)
(***************************************************************************)
ParentExists(p) == IF Dirname(p) = <<>> THEN TRUE ELSE Exists(Dirname(p))

RemoveTree(fs, p) ==
  [q \in AllInPaths |-> IF q = p \/ IsUnder(q, p) THEN Absent ELSE fs[q]]

EnvCreate(p) ==
  /\ nEnv < MaxEnv
  /\ ~Exists(p)
  /\ ParentExists(p)
  /\ \E s \in 0..MaxSize :
       inFS' = [inFS EXCEPT ![p] = IF p \in AllInDirs THEN 0 ELSE s]
  /\ nEnv' = nEnv + 1
  /\ UNCHANGED <<processing_files, processing_folders, folders_being_processed,
                 queue, task, pipe, nTasks, nEvents, lastEvent, storeVars, reconVars>>

EnvWrite(p) ==
  /\ nEnv < MaxEnv
  /\ p \in AllInFiles
  /\ Exists(p)
  /\ \E s \in 0..MaxSize : s # inFS[p] /\ inFS' = [inFS EXCEPT ![p] = s]
  /\ nEnv' = nEnv + 1
  /\ UNCHANGED <<processing_files, processing_folders, folders_being_processed,
                 queue, task, pipe, nTasks, nEvents, lastEvent, storeVars, reconVars>>

EnvDelete(p) ==
  /\ nEnv < MaxEnv
  /\ Exists(p)
  /\ inFS' = RemoveTree(inFS, p)
  /\ nEnv' = nEnv + 1
  /\ UNCHANGED <<processing_files, processing_folders, folders_being_processed,
                 queue, task, pipe, nTasks, nEvents, lastEvent, storeVars, reconVars>>

(***************************************************************************)
(* InputDirectoryHandler.on_created                                        *)
(***************************************************************************)
IsFolderInProgressForPath(file_path, file_dir) ==
  \E folder \in folders_being_processed :
     StartsWith(file_path, folder) \/ StartsWith(file_dir, folder)

AlreadyProcessingFolder(folder_path) ==
  folder_path \in processing_folders \/ folder_path \in folders_being_processed

\* the membership test left out: every create event passes
AlreadyProcessingFileNever(file_path) == FALSE

AlreadyProcessingFile(file_path) == file_path \in processing_files

\* worker_pool.submit(fn, path)
Submit(p, kind) ==
  /\ nTasks < MaxTasks
  /\ nTasks' = nTasks + 1
  /\ queue' = Append(queue, nTasks + 1)
  /\ task' = [task EXCEPT ![nTasks + 1] =
                [NoTask EXCEPT !.path = p, !.kind = kind, !.pc = "queued"]]

OnCreatedDir(p) ==
  /\ p \in AllInDirs
  /\ Exists(p)
  /\ nEvents < MaxEvents
  /\ nEvents' = nEvents + 1
  /\ IF IsHiddenName(Basename(p))
     THEN /\ lastEvent' = [path |-> p, outcome |-> "hidden"]
          /\ UNCHANGED <<folders_being_processed, queue, task, nTasks>>
     ELSE IF AlreadyProcessingFolder(p)
     THEN /\ lastEvent' = [path |-> p, outcome |-> "duplicate"]
          /\ UNCHANGED <<folders_being_processed, queue, task, nTasks>>
     ELSE /\ folders_being_processed' = folders_being_processed \cup {p}
          /\ Submit(p, "folder")
          /\ lastEvent' = [path |-> p, outcome |-> "submitted"]
  /\ UNCHANGED <<inFS, processing_files, processing_folders, pipe, nEnv, storeVars,
                 reconVars>>

OnCreatedFile(p) ==
  /\ p \in AllInFiles
  /\ Exists(p)
  /\ nEvents < MaxEvents
  /\ nEvents' = nEvents + 1
  /\ IF IsFolderInProgressForPath(p, Dirname(p))
     THEN /\ lastEvent' = [path |-> p, outcome |-> "folder_in_progress"]
          /\ UNCHANGED <<processing_files, queue, task, nTasks>>
     ELSE IF IsTempName(p) \/ IsHiddenName(Basename(p))
     THEN /\ lastEvent' = [path |-> p, outcome |-> "temporary"]
          /\ UNCHANGED <<processing_files, queue, task, nTasks>>
     ELSE IF AlreadyProcessingFile(p)
     THEN /\ lastEvent' = [path |-> p, outcome |-> "duplicate"]
          /\ UNCHANGED <<processing_files, queue, task, nTasks>>
     ELSE /\ processing_files' = processing_files \cup {p}
          /\ Submit(p, "file")
          /\ lastEvent' = [path |-> p, outcome |-> "submitted"]
  /\ UNCHANGED <<inFS, processing_folders, folders_being_processed, pipe, nEnv,
                 storeVars, reconVars>>

(***************************************************************************)
(* ThreadPoolExecutor(max_workers=3): a free worker takes the oldest task  *)
(***************************************************************************)
Running == {i \in TaskIds : task[i].pc \notin {"none", "queued", "done"}}

\* a pool that starts a thread for every task
WorkerTakeUnbounded ==
  /\ queue # <<>>
  /\ task' = [task EXCEPT ![Head(queue)].pc =
                IF task[Head(queue)].kind = "file" THEN "start" ELSE "fstart"]
  /\ queue' = Tail(queue)
  /\ UNCHANGED <<inFS, processing_files, processing_folders, folders_being_processed,
                 pipe, nTasks, nEvents, nEnv, lastEvent, storeVars, reconVars>>

WorkerTake ==
  /\ queue # <<>>
  /\ Cardinality(Running) < max_workers
  /\ task' = [task EXCEPT ![Head(queue)].pc =
                IF task[Head(queue)].kind = "file" THEN "start" ELSE "fstart"]
  /\ queue' = Tail(queue)
  /\ UNCHANGED <<inFS, processing_files, processing_folders, folders_being_processed,
                 pipe, nTasks, nEvents, nEnv, lastEvent, storeVars, reconVars>>

(***************************************************************************)
(* InputDirectoryHandler._delayed_process: one file task on a pool thread  *)
(***************************************************************************)
TaskUnchanged ==
  UNCHANGED <<queue, nTasks, nEvents, nEnv, lastEvent, reconVars>>

\* a task that reads the file without looking whether it is there
FileStartUnchecked(i) ==
  /\ task[i].pc = "start"
  /\ task' = [task EXCEPT ![i].pc = "read"]
  /\ TaskUnchanged
  /\ UNCHANGED <<inFS, processing_files, processing_folders, folders_being_processed,
                 pipe, storeVars>>

\* lines 516-524: the first existence check and size read, then the first
\* iteration of the settle loop up to its sleep
FileStart(i) ==
  /\ task[i].pc = "start"
  /\ IF ~Exists(task[i].path)
     THEN task' = [task EXCEPT ![i].pc = "finally"]
     ELSE task' = [task EXCEPT ![i].current_size = inFS[task[i].path],
                               ![i].initial_size = inFS[task[i].path],
                               ![i].pc = "sleep"]
  /\ TaskUnchanged
  /\ UNCHANGED <<inFS, processing_files, processing_folders, folders_being_processed,
                 pipe, storeVars>>

\* a settle loop that sleeps once and does not compare the sizes
FilePollOnce(i) ==
  /\ task[i].pc = "sleep"
  /\ IF ~Exists(task[i].path)
     THEN task' = [task EXCEPT ![i].pc = "finally"]
     ELSE task' = [task EXCEPT ![i].current_size = inFS[task[i].path],
                               ![i].pc = "check"]
  /\ TaskUnchanged
  /\ UNCHANGED <<inFS, processing_files, processing_folders, folders_being_processed,
                 pipe, storeVars>>

\* lines 527-535: wake up from time.sleep(2), poll the size, test the loop condition
FilePoll(i) ==
  /\ task[i].pc = "sleep"
  /\ IF ~Exists(task[i].path)
     THEN task' = [task EXCEPT ![i].pc = "finally"]
     ELSE IF inFS[task[i].path] = task[i].initial_size
     THEN task' = [task EXCEPT ![i].current_size = inFS[task[i].path],
                               ![i].pc = "check"]
     ELSE task' = [task EXCEPT ![i].current_size = inFS[task[i].path],
                               ![i].initial_size = inFS[task[i].path]]
  /\ TaskUnchanged
  /\ UNCHANGED <<inFS, processing_files, processing_folders, folders_being_processed,
                 pipe, storeVars>>

\* lines 540-546
FileCheck(i) ==
  /\ task[i].pc = "check"
  /\ task' = [task EXCEPT ![i].pc =
                IF IsFolderInProgressForPath(task[i].path, Dirname(task[i].path))
                THEN "finally" ELSE "read"]
  /\ TaskUnchanged
  /\ UNCHANGED <<inFS, processing_files, processing_folders, folders_being_processed,
                 pipe, storeVars>>

IsSupportedType(p) == p[Len(p)] \in DOCUMENT_EXTENSIONS \cup IMAGE_EXTENSIONS

\* lines 548-585: read the content, start the coroutine on the handler's loop
FileRead(i) ==
  /\ task[i].pc = "read"
  /\ IF Exists(task[i].path) /\ IsSupportedType(task[i].path)
     THEN /\ task' = [task EXCEPT ![i].pc = "wait"]
          /\ pipe' = [pipe EXCEPT ![i] =
                        [NoPipe EXCEPT !.pc = "llm", !.size = inFS[task[i].path]]]
     ELSE /\ task' = [task EXCEPT ![i].pc = "finally"]
          /\ UNCHANGED pipe
  /\ TaskUnchanged
  /\ UNCHANGED <<inFS, processing_files, processing_folders, folders_being_processed,
                 storeVars>>

\* line 589: process_future.result(timeout=300) returns the coroutine's result
FileResult(i) ==
  /\ task[i].pc = "wait"
  /\ pipe[i].pc = "done"
  /\ task' = [task EXCEPT ![i].result = pipe[i].result,
                          ![i].outcome = IF pipe[i].result = None THEN "failed" ELSE "ok",
                          ![i].pc = "post"]
  /\ TaskUnchanged
  /\ UNCHANGED <<inFS, processing_files, processing_folders, folders_being_processed,
                 pipe, storeVars>>

\* lines 589-593: the 300 s pass first; result() raises, the coroutine is not cancelled
FileTimeout(i) ==
  /\ task[i].pc = "wait"
  /\ pipe[i].pc # "done"
  /\ task' = [task EXCEPT ![i].result = None, ![i].outcome = "timeout",
                          ![i].pc = "post"]
  /\ TaskUnchanged
  /\ UNCHANGED <<inFS, processing_files, processing_folders, folders_being_processed,
                 pipe, storeVars>>

\* line 595: the condition under which the source file is removed
ShouldRemoveFile(processed_path, file_path) ==
  processed_path # None /\ Exists(file_path)

\* lines 595-607; os.remove may raise, which is logged
FilePost(i) ==
  /\ task[i].pc = "post"
  /\ IF ShouldRemoveFile(task[i].result, task[i].path)
     THEN \/ /\ inFS' = [inFS EXCEPT ![task[i].path] = Absent]
             /\ task' = [task EXCEPT ![i].pc = "finally", ![i].removed = TRUE]
          \/ /\ task' = [task EXCEPT ![i].pc = "finally"]
             /\ UNCHANGED inFS
     ELSE /\ task' = [task EXCEPT ![i].pc = "finally"]
          /\ UNCHANGED inFS
  /\ TaskUnchanged
  /\ UNCHANGED <<processing_files, processing_folders, folders_being_processed,
                 pipe, storeVars>>

\* the cleanup left out: the set keeps the path
DiscardNothing(paths, path) == paths

\* set.discard(path) of the finally blocks (505-506, 613)
Discard(paths, path) == paths \ {path}

\* lines 611-613
FileFinally(i) ==
  /\ task[i].pc = "finally"
  /\ processing_files' = Discard(processing_files, task[i].path)
  /\ task' = [task EXCEPT ![i].pc = "done"]
  /\ TaskUnchanged
  /\ UNCHANGED <<inFS, processing_folders, folders_being_processed, pipe, storeVars>>

(***************************************************************************)
(* InputDirectoryHandler._delayed_process_folder                           *)
(***************************************************************************)
\* lines 450-455
FolderStart(i) ==
  /\ task[i].pc = "fstart"
  /\ processing_folders' = processing_folders \cup {task[i].path}
  /\ task' = [task EXCEPT ![i].pc = "fsleep"]
  /\ TaskUnchanged
  /\ UNCHANGED <<inFS, processing_files, folders_being_processed, pipe, storeVars>>

\* lines 455-471: after time.sleep(10)
FolderWake(i) ==
  /\ task[i].pc = "fsleep"
  /\ IF Exists(task[i].path)
     THEN /\ task' = [task EXCEPT ![i].pc = "fwait"]
          /\ pipe' = [pipe EXCEPT ![i] = [NoPipe EXCEPT !.pc = "fllm"]]
     ELSE /\ task' = [task EXCEPT ![i].pc = "ffinally"]
          /\ UNCHANGED pipe
  /\ TaskUnchanged
  /\ UNCHANGED <<inFS, processing_files, processing_folders, folders_being_processed,
                 storeVars>>

\* line 475
FolderResult(i) ==
  /\ task[i].pc = "fwait"
  /\ pipe[i].pc = "done"
  /\ task' = [task EXCEPT ![i].result = pipe[i].result,
                          ![i].outcome = IF pipe[i].result = None THEN "failed" ELSE "ok",
                          ![i].pc = "fpost"]
  /\ TaskUnchanged
  /\ UNCHANGED <<inFS, processing_files, processing_folders, folders_being_processed,
                 pipe, storeVars>>

\* lines 475, 493-496
FolderTimeout(i) ==
  /\ task[i].pc = "fwait"
  /\ pipe[i].pc # "done"
  /\ task' = [task EXCEPT ![i].result = None, ![i].outcome = "timeout",
                          ![i].pc = "fpost"]
  /\ TaskUnchanged
  /\ UNCHANGED <<inFS, processing_files, processing_folders, folders_being_processed,
                 pipe, storeVars>>

\* lines 476-480
ShouldRemoveFolder(result, folder_path) == result # None /\ Exists(folder_path)

\* lines 476-492; shutil.rmtree may raise, which is logged
FolderPost(i) ==
  /\ task[i].pc = "fpost"
  /\ IF ShouldRemoveFolder(task[i].result, task[i].path)
     THEN \/ /\ inFS' = RemoveTree(inFS, task[i].path)
             /\ task' = [task EXCEPT ![i].pc = "ffinally", ![i].removed = TRUE]
          \/ /\ task' = [task EXCEPT ![i].pc = "ffinally"]
             /\ UNCHANGED inFS
     ELSE /\ task' = [task EXCEPT ![i].pc = "ffinally"]
          /\ UNCHANGED inFS
  /\ TaskUnchanged
  /\ UNCHANGED <<processing_files, processing_folders, folders_being_processed,
                 pipe, storeVars>>

\* lines 502-506
FolderFinally(i) ==
  /\ task[i].pc = "ffinally"
  /\ processing_folders' = Discard(processing_folders, task[i].path)
  /\ folders_being_processed' = Discard(folders_being_processed, task[i].path)
  /\ task' = [task EXCEPT ![i].pc = "done"]
  /\ TaskUnchanged
  /\ UNCHANGED <<inFS, processing_files, pipe, storeVars>>

(***************************************************************************)
(* Archive store and vector index primitives                               *)
(***************************************************************************)
\* os.path.exists on an archive-relative path: a file, or a directory holding one
ArchExists(paths, x) == \E q \in paths : StartsWith(q, x)

FreeSuffixes(paths, parent, name) ==
  {k \in 0..MaxSuffix : ~ArchExists(paths, parent \o <<Seg(name, k)>>)}

MinOf(S) == CHOOSE k \in S : \A j \in S : k <= j

\* utils._ensure_unique_relative_path: stem, stem_1, stem_2, ...
EnsureUniqueRelativePath(paths, parent, name) ==
  parent \o <<Seg(name, MinOf(FreeSuffixes(paths, parent, name)))>>

\* filesystem_service.save_file: open(full_path, "wb") replaces an existing file
SaveFile(arch, path, size) ==
  {r \in arch : r.path # path} \cup {[path |-> path, size |-> size]}

\* chroma_service.add_document_to_collection / add_image_to_collection:
\* upsert of the id; returns False, without raising, when the store fails
AddToCollection(idx, path, ok) == IF ok THEN idx \cup {path} ELSE idx

\* an index that deletes nothing
DeleteItemNothing(idx, path, ok) == idx

\* chroma_service.delete_item
DeleteItem(idx, path, ok) == IF ok THEN idx \ {path} ELSE idx

(***************************************************************************)
(* utils._DIRECTORY_CONTEXT_CACHE                                          *)
(***************************************************************************)
\* utils._invalidate_directory_context_cache (479-481)
InvalidateDirectoryContextCache(c) ==
  [c EXCEPT !.value = FALSE, !.young = FALSE, !.behind = FALSE]

\* utils.directory_structure_for_llm (484-511), force_refresh being False:
\* the cached value while it is there and younger than the TTL, otherwise a
\* context built (or the fallback tree) and cached
DirectoryStructureForLlm(c) ==
  IF c.value /\ c.young
  THEN [c EXCEPT !.served = "cached", !.served_behind = c.behind]
  ELSE [c EXCEPT !.value = TRUE, !.young = TRUE, !.behind = FALSE,
                 !.served = "built", !.served_behind = FALSE]

\* the archive watcher has called the index (main.py 706-1055): no call of
\* _invalidate_directory_context_cache follows; wrote tells whether the
\* index took a delete or an upsert
AfterWatcherIndexCall(c, wrote) ==
  IF wrote /\ c.value THEN [c EXCEPT !.behind = TRUE] ELSE c

\* the end of reconcile_filesystem_with_chroma (utils.py 1475-1476)
AfterReconcile(c, added_count, removed_count) ==
  IF added_count # 0 \/ removed_count # 0 THEN InvalidateDirectoryContextCache(c) ELSE c

\* monotonic() has passed created_at + _DIRECTORY_CONTEXT_CACHE_TTL_SECONDS
CacheExpire ==
  /\ cache.young
  /\ cache' = [cache EXCEPT !.young = FALSE]
  /\ UNCHANGED <<inputVars, storeVars, reconButCache>>

(***************************************************************************)
(* utils.process_document / process_image: the coroutine of a file task    *)
(***************************************************************************)
PipeUnchanged ==
  UNCHANGED <<inFS, processing_files, processing_folders, folders_being_processed,
              queue, task, nTasks, nEvents, nEnv, lastEvent>>

\* bookkeeping of a step that may write the archive or the index: passes in
\* progress (other than the writer's own) have been disturbed
StoreTouch(self) ==
  LET changed == archive' # archive \/ index' # index
  IN /\ dirty' = (dirty \/ changed)
     /\ pass' = [e \in Executors |->
                  IF changed /\ e # self /\ pass[e].pc # "idle"
                  THEN [pass[e] EXCEPT !.disturbed = TRUE] ELSE pass[e]]

NoExecutor == 0 - 1

StoreTouched ==
  /\ StoreTouch(NoExecutor)
  /\ UNCHANGED <<pending, running, timerRef, thr, arEvents, nTrig, nArEnv, nReq,
                 lastPass, histVars, moved, plan, observer, serviceVars>>

\* lines 552-637: the placement context is asked for, then extraction, summary,
\* path suggestion; any of them may raise, which the except clause turns into
\* a None result
PipeLlm(i) ==
  /\ pipe[i].pc = "llm"
  /\ cache' = DirectoryStructureForLlm(cache)
  /\ \/ pipe' = [pipe EXCEPT ![i].pc = "done", ![i].result = None]
     \/ \E d \in ArchDirs : pipe' = [pipe EXCEPT ![i].pc = "save", ![i].dir = d]
  /\ PipeUnchanged
  /\ UNCHANGED <<storeVars, reconButCache>>

\* a process_document that does not read what save_file returned
PipeSaveUnchecked(i) ==
  /\ pipe[i].pc = "save"
  /\ FreeSuffixes(ArchivePaths, pipe[i].dir, Basename(task[i].path)) # {}
  /\ LET final_path ==
           EnsureUniqueRelativePath(ArchivePaths, pipe[i].dir, Basename(task[i].path))
     IN \/ /\ archive' = SaveFile(archive, final_path, pipe[i].size)
           /\ cache' = InvalidateDirectoryContextCache(cache)
           /\ pipe' = [pipe EXCEPT ![i].pc = "index", ![i].dest = final_path,
                                   ![i].saved = TRUE]
        \/ /\ pipe' = [pipe EXCEPT ![i].pc = "index", ![i].dest = final_path]
           /\ UNCHANGED <<archive, cache>>
  /\ PipeUnchanged
  /\ UNCHANGED <<index, faults>>
  /\ StoreTouched

\* lines 638-644: a free name is chosen and the file is saved under it
PipeSave(i) ==
  /\ pipe[i].pc = "save"
  /\ FreeSuffixes(ArchivePaths, pipe[i].dir, Basename(task[i].path)) # {}
  /\ LET final_path ==
           EnsureUniqueRelativePath(ArchivePaths, pipe[i].dir, Basename(task[i].path))
     IN \/ /\ archive' = SaveFile(archive, final_path, pipe[i].size)
           /\ cache' = InvalidateDirectoryContextCache(cache)
           /\ pipe' = [pipe EXCEPT ![i].pc = "index", ![i].dest = final_path,
                                   ![i].saved = TRUE]
        \/ /\ pipe' = [pipe EXCEPT ![i].pc = "done", ![i].result = None]
           /\ UNCHANGED <<archive, cache>>
  /\ PipeUnchanged
  /\ UNCHANGED <<index, faults>>
  /\ StoreTouched

\* what process_document returns once the file is saved and the upsert was
\* attempted (lines 653-668): the return value of the upsert is not read
ResultAfterIndexWrite(final_path, ok) == final_path

\* lines 646-668
PipeIndex(i) ==
  /\ pipe[i].pc = "index"
  /\ \E ok \in BOOLEAN :
       /\ index' = AddToCollection(index, pipe[i].dest, ok)
       /\ faults' = (faults \/ ~ok)
       /\ pipe' = [pipe EXCEPT ![i].pc = "done", ![i].indexed = ok,
                               ![i].result = ResultAfterIndexWrite(pipe[i].dest, ok)]
  /\ PipeUnchanged
  /\ UNCHANGED <<archive, cache>>
  /\ StoreTouched

(***************************************************************************)
(* utils.process_folder: the coroutine of a folder task                    *)
(***************************************************************************)
\* lines 819-984
PipeFolderLlm(i) ==
  /\ pipe[i].pc = "fllm"
  /\ IF ~Exists(task[i].path)
     THEN /\ pipe' = [pipe EXCEPT ![i].pc = "done", ![i].result = None]
          /\ UNCHANGED cache
     ELSE /\ cache' = DirectoryStructureForLlm(cache)
          /\ \/ pipe' = [pipe EXCEPT ![i].pc = "done", ![i].result = None]
             \/ \E d \in ArchDirs : pipe' = [pipe EXCEPT ![i].pc = "fcopy", ![i].dir = d]
  /\ PipeUnchanged
  /\ UNCHANGED <<storeVars, reconButCache>>

SourceFiles(folder) == {q \in AllInFiles : IsUnder(q, folder) /\ Exists(q)}

\* lines 986-1147: copy to the staging directory, then move or merge into the
\* destination; a name that is taken gets a numeric suffix
PipeFolderCopy(i) ==
  /\ pipe[i].pc = "fcopy"
  /\ LET dest == pipe[i].dir \o <<Seg(Basename(task[i].path), 0)>>
         DestOf(q) == EnsureUniqueRelativePath(ArchivePaths, dest, Basename(q))
     IN IF ~Exists(task[i].path)
        THEN /\ pipe' = [pipe EXCEPT ![i].pc = "done", ![i].result = None]
             /\ UNCHANGED <<archive, cache>>
        ELSE \/ /\ pipe' = [pipe EXCEPT ![i].pc = "done", ![i].result = None]
                /\ UNCHANGED <<archive, cache>>
             \/ /\ \A q \in SourceFiles(task[i].path) :
                      FreeSuffixes(ArchivePaths, dest, Basename(q)) # {}
                /\ cache' = InvalidateDirectoryContextCache(cache)
                /\ archive' = archive \cup
                      {[path |-> DestOf(q), size |-> inFS[q]] :
                         q \in SourceFiles(task[i].path)}
                /\ pipe' = [pipe EXCEPT ![i].pc = "findex", ![i].dest = dest,
                              ![i].saved = TRUE,
                              ![i].copied = {DestOf(q) : q \in SourceFiles(task[i].path)}]
  /\ PipeUnchanged
  /\ UNCHANGED <<index, faults>>
  /\ StoreTouched

\* filesystem_service.fetch_content is falsy for a missing and for an empty file
HasContent(arch, path) == \E r \in arch : r.path = path /\ r.size > 0

\* lines 1152-1227: every file now under the destination is indexed when its
\* content is non-empty; a failed upsert is not noticed
PipeFolderIndex(i) ==
  /\ pipe[i].pc = "findex"
  /\ LET files_to_process ==
           {q \in ArchivePaths : StartsWith(q, pipe[i].dest) /\ HasContent(archive, q)}
     IN \E okset \in SUBSET files_to_process :
          /\ index' = index \cup okset
          /\ faults' = (faults \/ okset # files_to_process)
          /\ pipe' = [pipe EXCEPT ![i].pc = "done", ![i].result = pipe[i].dest,
                                  ![i].indexed = (okset = files_to_process)]
  /\ PipeUnchanged
  /\ UNCHANGED <<archive, cache>>
  /\ StoreTouched

(***************************************************************************)
(* The input watcher with its worker pool and event loop                   *)
(***************************************************************************)
NextIngest ==
  \/ \E p \in InPaths : EnvCreate(p)
  \/ \E p \in InPaths : EnvWrite(p)
  \/ \E p \in InPaths : EnvDelete(p)
  \/ \E p \in InPaths : OnCreatedDir(p)
  \/ \E p \in InPaths : OnCreatedFile(p)
  \/ WorkerTake
  \/ \E i \in TaskIds : FileStart(i)
  \/ \E i \in TaskIds : FilePoll(i)
  \/ \E i \in TaskIds : FileCheck(i)
  \/ \E i \in TaskIds : FileRead(i)
  \/ \E i \in TaskIds : FileResult(i)
  \/ \E i \in TaskIds : FileTimeout(i)
  \/ \E i \in TaskIds : FilePost(i)
  \/ \E i \in TaskIds : FileFinally(i)
  \/ \E i \in TaskIds : FolderStart(i)
  \/ \E i \in TaskIds : FolderWake(i)
  \/ \E i \in TaskIds : FolderResult(i)
  \/ \E i \in TaskIds : FolderTimeout(i)
  \/ \E i \in TaskIds : FolderPost(i)
  \/ \E i \in TaskIds : FolderFinally(i)
  \/ \E i \in TaskIds : PipeLlm(i)
  \/ \E i \in TaskIds : PipeSave(i)
  \/ \E i \in TaskIds : PipeIndex(i)
  \/ \E i \in TaskIds : PipeFolderLlm(i)
  \/ \E i \in TaskIds : PipeFolderCopy(i)
  \/ \E i \in TaskIds : PipeFolderIndex(i)

InitIngest == InitInput /\ InitStore /\ InitRecon

SpecIngest == InitIngest /\ [][NextIngest]_vars

\* the steps of task i on its pool thread
TaskStep(i) ==
  \/ FileStart(i) \/ FilePoll(i) \/ FileCheck(i) \/ FileRead(i)
  \/ FileResult(i) \/ FileTimeout(i) \/ FilePost(i) \/ FileFinally(i)
  \/ FolderStart(i) \/ FolderWake(i)
  \/ FolderResult(i) \/ FolderTimeout(i) \/ FolderPost(i) \/ FolderFinally(i)

\* a free pool thread takes the next queued task, and a pool thread goes on
\* running: time.sleep returns, and future.result(timeout=300) returns or raises
\* within its 300 s whatever the coroutine does
FairIngest ==
  /\ WF_vars(WorkerTake)
  /\ \A i \in TaskIds : WF_vars(TaskStep(i))

LiveIngest == SpecIngest /\ FairIngest

(***************************************************************************)
(* The worker pool with more tasks than workers: the handler is taken up   *)
(* while tasks submitted earlier sleep in their settle loops.  The         *)
(* coroutines are started and make no step: a task that waits for one      *)
(* holds its worker until result(timeout=300) raises                       *)
(***************************************************************************)
EarlierPaths == <<FileG, FileD2, FileDF>>

EarlierTask(k) ==
  [NoTask EXCEPT !.path = EarlierPaths[k], !.kind = "file", !.pc = "sleep",
                 !.initial_size = MaxSize, !.current_size = MaxSize]

InitPool ==
  /\ inFS = [p \in AllInPaths |-> IF p = DirDS THEN Absent
                                   ELSE IF p \in AllInDirs THEN 0 ELSE MaxSize]
  /\ processing_files = {EarlierPaths[k] : k \in 1..Earlier}
  /\ processing_folders = {}
  /\ folders_being_processed = {}
  /\ queue = <<>>
  /\ task = [i \in TaskIds |-> IF i > MaxTasks THEN EarlierTask(i - MaxTasks) ELSE NoTask]
  /\ pipe = [i \in TaskIds |-> NoPipe]
  /\ nTasks = 0
  /\ nEvents = 0
  /\ nEnv = 0
  /\ lastEvent = [path |-> <<>>, outcome |-> "none"]
  /\ InitStore
  /\ InitRecon

NextPool ==
  \/ \E p \in AllInPaths : OnCreatedDir(p)
  \/ \E p \in AllInPaths : OnCreatedFile(p)
  \/ WorkerTake
  \/ \E i \in TaskIds : FileStart(i)
  \/ \E i \in TaskIds : FilePoll(i)
  \/ \E i \in TaskIds : FileCheck(i)
  \/ \E i \in TaskIds : FileRead(i)
  \/ \E i \in TaskIds : FileTimeout(i)
  \/ \E i \in TaskIds : FilePost(i)
  \/ \E i \in TaskIds : FileFinally(i)
  \/ \E i \in TaskIds : FolderStart(i)
  \/ \E i \in TaskIds : FolderWake(i)
  \/ \E i \in TaskIds : FolderTimeout(i)
  \/ \E i \in TaskIds : FolderPost(i)
  \/ \E i \in TaskIds : FolderFinally(i)

SpecPool == InitPool /\ [][NextPool]_vars

LivePool == SpecPool /\ FairIngest

\* the same watcher over an input root that also has d/s and d2.txt
NextIntake ==
  \/ \E p \in AllInPaths : EnvCreate(p)
  \/ \E p \in AllInPaths : EnvWrite(p)
  \/ \E p \in AllInPaths : EnvDelete(p)
  \/ \E p \in AllInPaths : OnCreatedDir(p)
  \/ \E p \in AllInPaths : OnCreatedFile(p)
  \/ WorkerTake
  \/ \E i \in TaskIds : FileStart(i)
  \/ \E i \in TaskIds : FilePoll(i)
  \/ \E i \in TaskIds : FileCheck(i)
  \/ \E i \in TaskIds : FileRead(i)
  \/ \E i \in TaskIds : FileResult(i)
  \/ \E i \in TaskIds : FileTimeout(i)
  \/ \E i \in TaskIds : FilePost(i)
  \/ \E i \in TaskIds : FileFinally(i)
  \/ \E i \in TaskIds : FolderStart(i)
  \/ \E i \in TaskIds : FolderWake(i)
  \/ \E i \in TaskIds : FolderResult(i)
  \/ \E i \in TaskIds : FolderTimeout(i)
  \/ \E i \in TaskIds : FolderPost(i)
  \/ \E i \in TaskIds : FolderFinally(i)
  \/ \E i \in TaskIds : PipeLlm(i)
  \/ \E i \in TaskIds : PipeSave(i)
  \/ \E i \in TaskIds : PipeIndex(i)
  \/ \E i \in TaskIds : PipeFolderLlm(i)
  \/ \E i \in TaskIds : PipeFolderCopy(i)
  \/ \E i \in TaskIds : PipeFolderIndex(i)

SpecIntake == InitIngest /\ [][NextIntake]_vars

(***************************************************************************)
(* utils.reconcile_filesystem_with_chroma, executed by e                   *)
(***************************************************************************)
OthersUnchangedByPass ==
  UNCHANGED <<inputVars, arEvents, nTrig, nArEnv, timerRef>>

PassesInProgress == {e \in Executors : pass[e].pc # "idle"}

\* lines 1364-1383: filesystem_files
PassFs(e) ==
  /\ pass[e].pc = "fs"
  /\ pass' = [pass EXCEPT ![e].pc = "idx", ![e].fs = ArchivePaths,
                          ![e].disturbed = FALSE,
                          ![e].afterClean =
                             (/\ lastPass.ended
                              /\ lastPass.quiet
                              /\ ~dirty
                              /\ PassesInProgress = {e})]
  /\ OthersUnchangedByPass
  /\ UNCHANGED <<storeVars, pending, running, thr, nReq, dirty, lastPass, histVars,
                 moved, plan, cache, observer, serviceVars>>

\* lines 1386-1406: chroma_files.  No collection: the pass returns False;
\* collection.get() raising: chroma_files is the empty set
PassIdx(e) ==
  /\ pass[e].pc = "idx"
  /\ \/ /\ pass' = [pass EXCEPT ![e].pc = "end", ![e].idxOk = FALSE]
        /\ faults' = TRUE
     \/ /\ pass' = [pass EXCEPT ![e].pc = "add", ![e].idx = {}, ![e].idxOk = FALSE]
        /\ faults' = TRUE
     \/ /\ pass' = [pass EXCEPT ![e].pc = "add", ![e].idx = index]
        /\ UNCHANGED faults
  /\ OthersUnchangedByPass
  /\ UNCHANGED <<archive, index, pending, running, thr, nReq, dirty, lastPass, histVars,
                 moved, plan, cache, observer, serviceVars>>

\* the index ids are not subtracted: every file is handed to the index again
FilesToAddAll(filesystem_files, chroma_files) == filesystem_files

\* lines 1408-1409
FilesToAdd(filesystem_files, chroma_files) == filesystem_files \ chroma_files

\* nothing is ever found stale
FilesToRemoveNone(filesystem_files, chroma_files) == {}

\* lines 1447-1448
FilesToRemove(filesystem_files, chroma_files) == chroma_files \ filesystem_files

\* line 1422-1423: the files of files_to_add that are handed to the index
Addable(arch, files_to_add) == {f \in files_to_add : HasContent(arch, f)}

\* lines 1415-1445
PassAdd(e) ==
  /\ pass[e].pc = "add"
  /\ LET issued == Addable(archive, FilesToAdd(pass[e].fs, pass[e].idx))
     IN \E okset \in SUBSET issued :
          /\ index' = index \cup okset
          /\ faults' = (faults \/ okset # issued)
          /\ dirty' = (dirty \/ index' # index)
          /\ pass' = [x \in Executors |->
                       IF x = e
                       THEN [pass[e] EXCEPT !.pc = "remove", !.upserts = issued,
                                            !.upserted = okset,
                                            !.added_count = Cardinality(issued)]
                       ELSE IF index' # index /\ pass[x].pc # "idle"
                       THEN [pass[x] EXCEPT !.disturbed = TRUE]
                       ELSE pass[x]]
  /\ OthersUnchangedByPass
  /\ UNCHANGED <<archive, pending, running, thr, nReq, lastPass, histVars, moved, plan,
                 cache, observer, serviceVars>>

\* lines 1447-1476
PassRemove(e) ==
  /\ pass[e].pc = "remove"
  /\ LET issued == FilesToRemove(pass[e].fs, pass[e].idx)
     IN \E okset \in SUBSET issued :
          /\ index' = index \ okset
          /\ faults' = (faults \/ okset # issued)
          /\ dirty' = (dirty \/ index' # index)
          /\ pass' = [x \in Executors |->
                       IF x = e
                       THEN [pass[e] EXCEPT !.pc = "end", !.deletes = issued,
                                            !.deleted = okset,
                                            !.removed_count = Cardinality(issued)]
                       ELSE IF index' # index /\ pass[x].pc # "idle"
                       THEN [pass[x] EXCEPT !.disturbed = TRUE]
                       ELSE pass[x]]
          /\ cache' = AfterReconcile(cache, pass[e].added_count, Cardinality(issued))
  /\ OthersUnchangedByPass
  /\ UNCHANGED <<archive, pending, running, thr, nReq, lastPass, histVars, moved, plan, observer,
                 serviceVars>>

PassAllOk(r) == r.idxOk /\ r.upserted = r.upserts /\ r.deleted = r.deletes

\* what is remembered of a pass once it has returned
Ended(r) ==
  [ended |-> TRUE, allOk |-> PassAllOk(r), quiet |-> ~r.disturbed,
   wrote |-> (r.upserted \cup r.deleted # {})]

(***************************************************************************)
(* main.schedule_reconciliation and main._run_reconciliation_worker        *)
(***************************************************************************)
\* lines 145-156, under _reconciliation_lock; Timer.cancel stops a timer that
\* has not fired yet
ScheduleReconciliation ==
  /\ nTrig < MaxTrig
  /\ nTrig' = nTrig + 1
  /\ pending' = TRUE
  /\ thr' = [t \in ThreadIds |->
              IF t = nTrig + 2 THEN [pc |-> "armed"]
              ELSE IF t = timerRef /\ thr[t].pc = "armed" THEN [pc |-> "cancelled"]
              ELSE thr[t]]
  /\ timerRef' = nTrig + 2
  /\ burst' = [burst EXCEPT !.since = 0,
                            !.open = burst.open \/ running,
                            !.n = IF running THEN burst.n + 1 ELSE burst.n]

\* threading.Timer: the interval has passed, _dispatch runs on the timer thread
TimerFire(t) ==
  /\ thr[t].pc = "armed"
  /\ thr' = [thr EXCEPT ![t].pc = "lock"]
  /\ UNCHANGED <<inputVars, storeVars, pending, running, timerRef, pass, arEvents,
                 nTrig, nArEnv, nReq, dirty, lastPass, histVars, moved, plan, cache, observer,
                 serviceVars>>

\* the pending flag is not read: every worker that finds no pass running runs one
WorkerMayRunIgnoringPending == ~running

\* lines 118-122: what the worker does with the lock held
WorkerMayRun == ~running /\ pending

\* lines 118-124
WorkerLock(t) ==
  /\ thr[t].pc = "lock"
  /\ IF WorkerMayRun
     THEN /\ pending' = FALSE
          /\ running' = TRUE
          /\ thr' = [thr EXCEPT ![t].pc = "pass"]
          /\ pass' = [pass EXCEPT ![t] = [NoPass EXCEPT !.pc = "fs", !.serves = owed]]
          /\ burst' = [open |-> FALSE, n |-> 0,
                       since |-> IF burst.since < 2 THEN burst.since + 1 ELSE 2,
                       served |-> IF burst.open THEN burst.n ELSE burst.served]
     ELSE /\ thr' = [thr EXCEPT ![t].pc = "exit"]
          /\ UNCHANGED <<pending, running, pass, burst>>
  /\ UNCHANGED <<inputVars, storeVars, timerRef, arEvents, nTrig, nArEnv, nReq,
                 dirty, lastPass, owed, moved, plan, cache, observer, serviceVars>>

\* lines 130-136
WorkerFinally(t) ==
  /\ thr[t].pc = "pass"
  /\ pass[t].pc = "end"
  /\ running' = FALSE
  /\ thr' = [thr EXCEPT ![t].pc = IF pending THEN "sleep" ELSE "exit"]
  /\ lastPass' = Ended(pass[t])
  /\ dirty' = FALSE
  /\ owed' = owed \ pass[t].serves
  /\ pass' = [pass EXCEPT ![t] = NoPass]
  /\ UNCHANGED <<inputVars, storeVars, pending, timerRef, arEvents, nTrig, nArEnv, nReq,
                 burst, moved, plan, cache, observer, serviceVars>>

\* line 139: time.sleep(1.0) is over, back to the head of the loop
WorkerWake(t) ==
  /\ thr[t].pc = "sleep"
  /\ thr' = [thr EXCEPT ![t].pc = "lock"]
  /\ UNCHANGED <<inputVars, storeVars, pending, running, timerRef, pass, arEvents,
                 nTrig, nArEnv, nReq, dirty, lastPass, histVars, moved, plan, cache, observer,
                 serviceVars>>

(***************************************************************************)
(* endpoints.reconcile: POST /reconcile calls the pass directly            *)
(***************************************************************************)
EndpointRequest(limit) ==
  /\ nReq < limit
  /\ pass[0].pc = "idle"
  /\ nReq' = nReq + 1
  /\ pass' = [pass EXCEPT ![0] = [NoPass EXCEPT !.pc = "fs"]]
  /\ UNCHANGED <<inputVars, storeVars, pending, running, timerRef, thr, arEvents,
                 nTrig, nArEnv, dirty, lastPass, histVars, moved, plan, cache, observer,
                 serviceVars>>

EndpointReturn ==
  /\ pass[0].pc = "end"
  /\ lastPass' = Ended(pass[0])
  /\ dirty' = FALSE
  /\ pass' = [pass EXCEPT ![0] = NoPass]
  /\ UNCHANGED <<inputVars, storeVars, pending, running, timerRef, thr, arEvents,
                 nTrig, nArEnv, nReq, histVars, moved, plan, cache, observer, serviceVars>>

(***************************************************************************)
(* The archive root as the environment changes it (by hand, by other       *)
(* applications); every change queues the watcher's event                  *)
(***************************************************************************)
Event(kind, is_directory, path) ==
  [kind |-> kind, is_directory |-> is_directory, src_path |-> path, dest_path |-> <<>>]

MovedEvent(is_directory, src, dest) ==
  [kind |-> "moved", is_directory |-> is_directory, src_path |-> src, dest_path |-> dest]

\* os.path.commonpath([dest_path, ARCHIVE_DIR]) == ARCHIVE_DIR (main.py 728-731)
DestInArchive(dest_path) == ~StartsWith(dest_path, Outside)

\* queued directory events whose handling schedules a reconciliation
QueuedDirDeletes ==
  Cardinality({k \in 1..Len(arEvents) :
                 /\ arEvents[k].is_directory
                 /\ \/ arEvents[k].kind = "deleted"
                    \/ /\ arEvents[k].kind = "moved"
                       /\ ~DestInArchive(arEvents[k].dest_path)})

ArEnvUnchanged ==
  UNCHANGED <<inputVars, index, faults, pending, running, timerRef, thr, nTrig, nReq,
              lastPass, histVars, moved, plan, cache, observer, serviceVars>>

ArEnvCreate(f) ==
  /\ nArEnv < MaxArEnv
  /\ f \in ArchFiles \ ArchivePaths
  /\ \E s \in 0..MaxSize : archive' = SaveFile(archive, f, s)
  /\ arEvents' = Append(arEvents, Event("created", FALSE, f))
  /\ nArEnv' = nArEnv + 1
  /\ ArEnvUnchanged
  /\ StoreTouch(NoExecutor)

\* a file appears at any path of the archive (a copy made by another
\* application, or by shutil.copytree into a staging directory)
ArEnvCopyIn(f) ==
  /\ nArEnv < MaxArEnv
  /\ f \notin ArchivePaths
  /\ \E s \in 0..MaxSize : archive' = SaveFile(archive, f, s)
  /\ arEvents' = Append(arEvents, Event("created", FALSE, f))
  /\ nArEnv' = nArEnv + 1
  /\ ArEnvUnchanged
  /\ StoreTouch(NoExecutor)

\* an empty directory appears
ArEnvMkdir(d) ==
  /\ nArEnv < MaxArEnv
  /\ ~\E q \in ArchivePaths : StartsWith(q, d)
  /\ arEvents' = Append(arEvents, Event("created", TRUE, d))
  /\ nArEnv' = nArEnv + 1
  /\ UNCHANGED archive
  /\ ArEnvUnchanged
  /\ StoreTouch(NoExecutor)

ArEnvWrite(f) ==
  /\ nArEnv < MaxArEnv
  /\ f \in ArchivePaths
  /\ \E s \in 0..MaxSize :
       /\ [path |-> f, size |-> s] \notin archive
       /\ archive' = SaveFile(archive, f, s)
  /\ arEvents' = Append(arEvents, Event("modified", FALSE, f))
  /\ nArEnv' = nArEnv + 1
  /\ ArEnvUnchanged
  /\ StoreTouch(NoExecutor)

ArEnvDeleteFile(f) ==
  /\ nArEnv < MaxArEnv
  /\ f \in ArchivePaths
  /\ archive' = {r \in archive : r.path # f}
  /\ arEvents' = Append(arEvents, Event("deleted", FALSE, f))
  /\ nArEnv' = nArEnv + 1
  /\ ArEnvUnchanged
  /\ StoreTouch(NoExecutor)

\* the directory goes with everything beneath it; only its own event is queued
ArEnvDeleteDir(d) ==
  /\ nArEnv < MaxArEnv
  /\ nTrig + QueuedDirDeletes < MaxTrig
  /\ \E q \in ArchivePaths : StartsWith(q, d)
  /\ archive' = {r \in archive : ~StartsWith(r.path, d)}
  /\ arEvents' = Append(arEvents, Event("deleted", TRUE, d))
  /\ nArEnv' = nArEnv + 1
  /\ ArEnvUnchanged
  /\ StoreTouch(NoExecutor)

\* the path q, found under the directory from, as it reads under to
Rebase(q, from, to) == to \o SubSeq(q, Len(from) + 1, Len(q))

\* a file is moved into another directory, or out of the archive
ArEnvMoveFile(f, d) ==
  /\ nArEnv < MaxArEnv
  /\ f \in ArchivePaths
  /\ LET g == d \o <<f[Len(f)]>>
     IN /\ g \notin ArchivePaths
        /\ archive' = IF DestInArchive(g)
                       THEN {IF r.path = f THEN [r EXCEPT !.path = g] ELSE r : r \in archive}
                       ELSE {r \in archive : r.path # f}
        /\ arEvents' = Append(arEvents, MovedEvent(FALSE, f, g))
  /\ nArEnv' = nArEnv + 1
  /\ ArEnvUnchanged
  /\ StoreTouch(NoExecutor)

\* a directory is renamed, or moved out of the archive, with everything
\* beneath it; only its own event is queued
ArEnvMoveDir(d, e) ==
  /\ nArEnv < MaxArEnv
  /\ e # d
  /\ DestInArchive(e) \/ nTrig + QueuedDirDeletes < MaxTrig
  /\ \E q \in ArchivePaths : StartsWith(q, d)
  /\ ~\E q \in ArchivePaths : StartsWith(q, e)
  /\ archive' = IF DestInArchive(e)
                THEN {IF StartsWith(r.path, d)
                      THEN [r EXCEPT !.path = Rebase(r.path, d, e)] ELSE r : r \in archive}
                ELSE {r \in archive : ~StartsWith(r.path, d)}
  /\ arEvents' = Append(arEvents, MovedEvent(TRUE, d, e))
  /\ nArEnv' = nArEnv + 1
  /\ ArEnvUnchanged
  /\ StoreTouch(NoExecutor)

(***************************************************************************)
(* ArchiveDirectoryHandler: one event at a time on the observer thread     *)
(***************************************************************************)
ArchiveBasename(path) == path[Len(path)].n

\* int(timestamp) succeeds on these tokens and raises ValueError on the others
Numerals == {"1700"}

\* the test made on a basename at main.py 641-652 (and again at 659-668 and
\* 676-685): it starts with temp_, another underscore follows, and what
\* follows the last underscore parses as an integer
IsTempFolderName(basename) ==
  /\ basename[1] = "temp_"
  /\ \E i \in 2..Len(basename) : basename[i] = "_"
  /\ LET last == CHOOSE i \in 2..Len(basename) :
                    /\ basename[i] = "_"
                    /\ \A j \in (i + 1)..Len(basename) : basename[j] # "_"
     IN last = Len(basename) - 1 /\ basename[Len(basename)] \in Numerals

\* a handler that knows nothing of the staging directories
ShouldSkipPathButStaging(path) ==
  \/ \E k \in 1..Len(path) : path[k].n = <<".chromadb">>
  \/ IsHiddenName(ArchiveBasename(path))

\* _should_skip_path (main.py 626-689): the index's storage directory among
\* the components, a dot-prefixed basename, a staging name as the basename,
\* the parent's basename (655-668) or an ancestor's (670-687)
ShouldSkipPath(path) ==
  \/ \E k \in 1..Len(path) : path[k].n = <<".chromadb">>
  \/ IsHiddenName(ArchiveBasename(path))
  \/ \E k \in 1..Len(path) : IsTempFolderName(path[k].n)

HandlerUnchanged ==
  UNCHANGED <<inputVars, archive, nArEnv, nReq, lastPass, search, upload, context, planner,
              lifeVars>>

\* on_created (706-721): nothing is indexed
OnArchiveCreated(ev) ==
  /\ UNCHANGED <<index, faults, pending, running, timerRef, thr, nTrig, dirty, pass,
                 histVars, moved, plan, cache>>

\* on_modified (998-1055): delete the id, then upsert it, when content was read
OnArchiveModified(ev) ==
  /\ IF ~ShouldSkipPath(ev.src_path) /\ ~ev.is_directory
        /\ HasContent(archive, ev.src_path)
     THEN \E ok1, ok2 \in BOOLEAN :
            /\ index' = AddToCollection(DeleteItem(index, ev.src_path, ok1),
                                        ev.src_path, ok2)
            /\ faults' = (faults \/ ~ok1 \/ ~ok2)
            /\ cache' = AfterWatcherIndexCall(cache, ok1 \/ ok2)
     ELSE UNCHANGED <<index, faults, cache>>
  /\ StoreTouch(NoExecutor)
  /\ UNCHANGED <<pending, running, timerRef, thr, nTrig, histVars, moved, plan>>

\* on_deleted (945-963), a file
OnArchiveFileDeleted(ev) ==
  /\ IF ~ShouldSkipPath(ev.src_path)
     THEN \E ok \in BOOLEAN :
            /\ index' = DeleteItem(index, ev.src_path, ok)
            /\ faults' = (faults \/ ~ok)
            /\ cache' = AfterWatcherIndexCall(cache, ok)
     ELSE UNCHANGED <<index, faults, cache>>
  /\ StoreTouch(NoExecutor)
  /\ UNCHANGED <<pending, running, timerRef, thr, nTrig, histVars, moved, plan>>

\* on_deleted (965-996), a directory
OnArchiveDirDeleted(ev) ==
  /\ IF ~ShouldSkipPath(ev.src_path)
     THEN /\ ScheduleReconciliation
          /\ owed' = owed \cup {ev.src_path}
     ELSE UNCHANGED <<pending, thr, timerRef, nTrig, histVars>>
  /\ UNCHANGED <<index, faults, running, dirty, pass, moved, plan, cache>>

\* chroma_service.rename (185-214): the delete, then the upsert, the first
\* exception ending the call
RenameOutcomes == {"ok", "no_collection", "delete_raises", "upsert_raises"}

Rename(idx, old_path, new_path, outcome) ==
  CASE outcome = "ok" -> [index |-> (idx \ {old_path}) \cup {new_path}, ret |-> TRUE]
    [] outcome = "no_collection" -> [index |-> idx, ret |-> FALSE]
    [] outcome = "delete_raises" -> [index |-> idx, ret |-> FALSE]
    [] outcome = "upsert_raises" -> [index |-> idx \ {old_path}, ret |-> FALSE]

\* one rename carried out by on_moved: updated is TRUE when the handler
\* reported it as done (the tick of line 778, updated_count of line 909)
MoveStep(old_path, new_path, ret) ==
  [old |-> old_path, new |-> new_path, ret |-> ret, updated |-> TRUE]

\* a handler that renames the record wherever the destination lies
OnArchiveFileMovedAsRename(ev) ==
  /\ \E outcome \in RenameOutcomes :
       LET r == Rename(index, ev.src_path, ev.dest_path, outcome)
       IN /\ index' = r.index
          /\ faults' = (faults \/ ~r.ret)
          /\ cache' = AfterWatcherIndexCall(cache, outcome \in {"ok", "upsert_raises"})
          /\ moved' = {}
  /\ StoreTouch(NoExecutor)
  /\ UNCHANGED <<pending, running, timerRef, thr, nTrig, histVars, plan>>

\* on_moved (725-785), a file
OnArchiveFileMoved(ev) ==
  LET src_in_archive == ~ShouldSkipPath(ev.src_path)
      dest_in_archive == DestInArchive(ev.dest_path)
  IN /\ IF src_in_archive /\ ~dest_in_archive
        THEN /\ \E ok \in BOOLEAN :
                  /\ index' = DeleteItem(index, ev.src_path, ok)
                  /\ faults' = (faults \/ ~ok)
                  /\ cache' = AfterWatcherIndexCall(cache, ok)
             /\ moved' = {}
        ELSE IF ShouldSkipPath(ev.src_path) \/ ShouldSkipPath(ev.dest_path)
        THEN /\ moved' = {}
             /\ UNCHANGED <<index, faults, cache>>
        ELSE IF HasContent(archive, ev.dest_path)
        THEN \E outcome \in RenameOutcomes :
               LET r == Rename(index, ev.src_path, ev.dest_path, outcome)
               IN /\ index' = r.index
                  /\ faults' = (faults \/ ~r.ret)
                  /\ cache' = AfterWatcherIndexCall(cache, outcome \in {"ok", "upsert_raises"})
                  /\ moved' = {MoveStep(ev.src_path, ev.dest_path, r.ret)}
        ELSE /\ moved' = {}
             /\ UNCHANGED <<index, faults, cache>>
     /\ StoreTouch(NoExecutor)
     /\ UNCHANGED <<pending, running, timerRef, thr, nTrig, histVars, plan>>

\* _get_all_files_in_dir (691-704): the files now under the directory,
\* dot-prefixed names left out
GetAllFilesInDir(arch, dir_path) ==
  {r.path : r \in {x \in arch : /\ StartsWith(x.path, dir_path)
                                 /\ ~IsHiddenName(ArchiveBasename(x.path))}}

\* on_moved (787-943), a directory. processing_folders (833-837, 850, 942-943)
\* is filled and emptied within the one callback, which the observer thread
\* runs to its end before the next, so the test of 833-837 never fires.
\* Every file under the new path that has content is renamed: delete_item
\* and add_*_to_collection return False rather than raise, and the step is
\* counted as updated either way.
OnArchiveDirMoved(ev) ==
  LET src_in_archive == ~ShouldSkipPath(ev.src_path)
      dest_in_archive == DestInArchive(ev.dest_path)
      files_to_update == {q \in GetAllFilesInDir(archive, ev.dest_path) :
                            ~ShouldSkipPath(q) /\ HasContent(archive, q)}
      old_of(q) == Rebase(q, ev.dest_path, ev.src_path)
  IN IF src_in_archive /\ ~dest_in_archive
     THEN /\ ScheduleReconciliation
          /\ moved' = {}
          /\ UNCHANGED <<index, faults, running, dirty, pass, owed, plan, cache>>
     ELSE IF ShouldSkipPath(ev.src_path) \/ ShouldSkipPath(ev.dest_path)
     THEN /\ moved' = {}
          /\ UNCHANGED <<index, faults, pending, running, timerRef, thr, nTrig, dirty,
                         pass, histVars, plan, cache>>
     ELSE /\ \E deleted, added \in SUBSET files_to_update :
               /\ index' = (index \ {old_of(q) : q \in deleted}) \cup added
               /\ faults' = (faults \/ deleted # files_to_update
                                    \/ added # files_to_update)
               /\ moved' = {MoveStep(old_of(q), q, q \in deleted /\ q \in added) :
                              q \in files_to_update}
               /\ cache' = AfterWatcherIndexCall(cache, deleted \cup added # {})
          /\ StoreTouch(NoExecutor)
          /\ UNCHANGED <<pending, running, timerRef, thr, nTrig, histVars, plan>>

\* watchdog's observer thread takes the next event off its queue and runs
\* the handler's callback for it (the callbacks submit nothing to a pool)
ArchiveCallback ==
  /\ arEvents # <<>>
  /\ arEvents' = Tail(arEvents)
  /\ HandlerUnchanged
  /\ LET ev == Head(arEvents)
     IN CASE ev.kind = "created" -> OnArchiveCreated(ev)
          [] ev.kind = "modified" -> OnArchiveModified(ev)
          [] ev.kind = "deleted" /\ ~ev.is_directory -> OnArchiveFileDeleted(ev)
          [] ev.kind = "deleted" /\ ev.is_directory -> OnArchiveDirDeleted(ev)
          [] ev.kind = "moved" /\ ~ev.is_directory -> OnArchiveFileMoved(ev)
          [] ev.kind = "moved" /\ ev.is_directory -> OnArchiveDirMoved(ev)

\* the callback from its first line to its return
ArchiveHandle ==
  /\ observer.pc = "idle"
  /\ ArchiveCallback
  /\ UNCHANGED <<observer, handled>>

\* the same, the event and the index as it was being kept for the properties
ArchiveHandleNoted ==
  /\ observer.pc = "idle"
  /\ ArchiveCallback
  /\ handled' = [event |-> Head(arEvents), index |-> index]
  /\ UNCHANGED observer

\* the callbacks that reach a call of chroma_service: on_modified (1022-1040),
\* on_deleted (958), on_moved (745, 770-775, 879-920)
MakesIndexCall(ev) ==
  CASE ev.kind = "modified" ->
         ~ShouldSkipPath(ev.src_path) /\ ~ev.is_directory /\ HasContent(archive, ev.src_path)
    [] ev.kind = "deleted" /\ ~ev.is_directory -> ~ShouldSkipPath(ev.src_path)
    [] ev.kind = "moved" /\ ~ev.is_directory ->
         \/ ~ShouldSkipPath(ev.src_path) /\ ~DestInArchive(ev.dest_path)
         \/ /\ ~ShouldSkipPath(ev.src_path) /\ ~ShouldSkipPath(ev.dest_path)
            /\ HasContent(archive, ev.dest_path)
    [] ev.kind = "moved" /\ ev.is_directory ->
         /\ DestInArchive(ev.dest_path)
         /\ ~ShouldSkipPath(ev.src_path) /\ ~ShouldSkipPath(ev.dest_path)
         /\ \E q \in GetAllFilesInDir(archive, ev.dest_path) :
               ~ShouldSkipPath(q) /\ HasContent(archive, q)
    [] OTHER -> FALSE

\* the same callback when the index is slow to answer: the call has taken
\* effect and has not returned, so the observer thread is still inside it
ArchiveHandleSlowly ==
  /\ observer.pc = "idle"
  /\ arEvents # <<>>
  /\ MakesIndexCall(Head(arEvents))
  /\ ArchiveCallback
  /\ observer' = [pc |-> "index_call"]
  /\ UNCHANGED handled

\* the call returns and the callback runs to its end
IndexCallReturns ==
  /\ observer.pc = "index_call"
  /\ observer' = IdleObserver
  /\ UNCHANGED <<inputVars, storeVars, pending, running, timerRef, thr, pass, arEvents,
                 nTrig, nArEnv, nReq, dirty, lastPass, histVars, moved, plan, cache,
                 serviceVars>>

(***************************************************************************)
(* The archive side: watcher, reconciliation machinery, endpoint           *)
(***************************************************************************)
InitArchives ==
  {A \in SUBSET [path : ArchFiles, size : 0..MaxSize] :
     \A r1, r2 \in A : r1.path = r2.path => r1 = r2}

\* any archive and any index over the model's files, no event queued
InitReconcile ==
  /\ InitInput
  /\ archive \in InitArchives
  /\ index \in SUBSET ArchFiles
  /\ faults = FALSE
  /\ InitRecon

\* the passes of the endpoint alone, with the archive changing at will
NextReconcile ==
  \/ \E f \in ArchFiles : ArEnvCreate(f)
  \/ \E f \in ArchFiles : ArEnvWrite(f)
  \/ \E f \in ArchFiles : ArEnvDeleteFile(f)
  \/ \E d \in ArchDirs : ArEnvDeleteDir(d)
  \/ ArchiveHandle
  \/ PassFs(0)
  \/ PassIdx(0)
  \/ PassAdd(0)
  \/ PassRemove(0)
  \/ EndpointRequest(MaxReq)
  \/ EndpointReturn

SpecReconcile == InitReconcile /\ [][NextReconcile]_vars

\* an archive whose files are all indexed
InitArchive ==
  /\ InitInput
  /\ archive = {[path |-> FinA, size |-> 1], [path |-> PhoB, size |-> 1]}
  /\ index = {FinA, PhoB}
  /\ faults = FALSE
  /\ InitRecon

\* the watcher and the worker passes, with the archive changing at will
NextArchive ==
  \/ \E f \in ArchFiles : ArEnvCreate(f)
  \/ \E f \in ArchFiles : ArEnvWrite(f)
  \/ \E f \in ArchFiles : ArEnvDeleteFile(f)
  \/ \E d \in ArchDirs : ArEnvDeleteDir(d)
  \/ ArchiveHandle
  \/ \E t \in ThreadIds : TimerFire(t)
  \/ \E t \in ThreadIds : WorkerLock(t)
  \/ \E t \in ThreadIds : WorkerFinally(t)
  \/ \E t \in ThreadIds : WorkerWake(t)
  \/ \E t \in ThreadIds : PassFs(t)
  \/ \E t \in ThreadIds : PassIdx(t)
  \/ \E t \in ThreadIds : PassAdd(t)
  \/ \E t \in ThreadIds : PassRemove(t)

SpecArchive == InitArchive /\ [][NextArchive]_vars

(***************************************************************************)
(* The reconciliation machinery: directory deletions as triggers, the      *)
(* debounce timers, the worker threads and the endpoint                    *)
(***************************************************************************)
InitMachinery ==
  /\ InitInput
  /\ archive = {[path |-> PhoB, size |-> 1]}
  /\ index = {FinA, PhoB}
  /\ faults = FALSE
  /\ InitRecon

NextMachinery ==
  \/ \E d \in ArchDirs : ArEnvDeleteDir(d)
  \/ ArchiveHandle
  \/ \E t \in ThreadIds : TimerFire(t)
  \/ \E t \in ThreadIds : WorkerLock(t)
  \/ \E t \in ThreadIds : WorkerFinally(t)
  \/ \E t \in ThreadIds : WorkerWake(t)
  \/ \E e \in Executors : PassFs(e)
  \/ \E e \in Executors : PassIdx(e)
  \/ \E e \in Executors : PassAdd(e)
  \/ \E e \in Executors : PassRemove(e)
  \/ EndpointRequest(MaxOverlap)
  \/ EndpointReturn

SpecMachinery == InitMachinery /\ [][NextMachinery]_vars

(***************************************************************************)
(* The placement context: ingestion beside the archive watcher             *)
(***************************************************************************)
NextContext ==
  \/ EnvCreate(FileG)
  \/ OnCreatedFile(FileG)
  \/ WorkerTake
  \/ \E i \in TaskIds : FileStart(i)
  \/ \E i \in TaskIds : FilePoll(i)
  \/ \E i \in TaskIds : FileCheck(i)
  \/ \E i \in TaskIds : FileRead(i)
  \/ \E i \in TaskIds : FileResult(i)
  \/ \E i \in TaskIds : FileTimeout(i)
  \/ \E i \in TaskIds : FilePost(i)
  \/ \E i \in TaskIds : FileFinally(i)
  \/ \E i \in TaskIds : PipeLlm(i)
  \/ \E i \in TaskIds : PipeSave(i)
  \/ \E i \in TaskIds : PipeIndex(i)
  \/ ArEnvWrite(FinA)
  \/ ArEnvDeleteFile(FinA)
  \/ ArchiveHandle
  \/ CacheExpire

SpecContext == InitArchive /\ [][NextContext]_vars

\* C18: after an index delete or upsert of the archive watcher the next
\* context request rebuilds the snapshot: a request is never answered with a
\* value that was cached before such a write
C18_ServedContextIsCurrent ==
  cache.served = "cached" => ~cache.served_behind

(***************************************************************************)
(* Path suggestions: strings are sequences of characters                   *)
(***************************************************************************)
EndsWith(s, t) == Len(t) <= Len(s) /\ SubSeq(s, Len(s) - Len(t) + 1, Len(s)) = t

\* the Python test "t in s"
Contains(s, t) == \E i \in 1..(Len(s) - Len(t) + 1) : SubSeq(s, i, i + Len(t) - 1) = t

\* s.rfind(c), counted from 1; 0 when c does not occur
RFind(s, c) == IF \E i \in 1..Len(s) : s[i] = c
               THEN CHOOSE i \in 1..Len(s) : s[i] = c /\ \A j \in (i + 1)..Len(s) : s[j] # c
               ELSE 0

\* s.find(c), counted from 1; 0 when c does not occur
Find(s, c) == IF \E i \in 1..Len(s) : s[i] = c
              THEN CHOOSE i \in 1..Len(s) : s[i] = c /\ \A j \in 1..(i - 1) : s[j] # c
              ELSE 0

RECURSIVE SplitSlash(_)
\* s.split("/")
SplitSlash(s) ==
  IF Find(s, "/") = 0 THEN <<s>>
  ELSE <<SubSeq(s, 1, Find(s, "/") - 1)>> \o SplitSlash(SubSeq(s, Find(s, "/") + 1, Len(s)))

RECURSIVE JoinSlash(_)
\* "/".join(parts)
JoinSlash(parts) ==
  IF Len(parts) = 0 THEN <<>>
  ELSE IF Len(parts) = 1 THEN parts[1]
  ELSE parts[1] \o <<"/">> \o JoinSlash(Tail(parts))

\* s.replace("\\", "/")
ReplaceBackslash(s) == [i \in 1..Len(s) |-> IF s[i] = "\\" THEN "/" ELSE s[i]]

RECURSIVE LStrip(_, _)
LStrip(s, c) == IF Len(s) > 0 /\ s[1] = c THEN LStrip(Tail(s), c) ELSE s

RECURSIVE RStrip(_, _)
RStrip(s, c) ==
  IF Len(s) > 0 /\ s[Len(s)] = c THEN RStrip(SubSeq(s, 1, Len(s) - 1), c) ELSE s

\* s.strip(), the blank being the whitespace of this model
Strip(s) == RStrip(LStrip(s, " "), " ")

RECURSIVE ReplaceDoubleSpace(_)
\* s.replace("  ", " "): one pass from the left, matches not overlapping
ReplaceDoubleSpace(s) ==
  IF Len(s) < 2 THEN s
  ELSE IF s[1] = " " /\ s[2] = " "
  THEN <<" ">> \o ReplaceDoubleSpace(SubSeq(s, 3, Len(s)))
  ELSE <<s[1]>> \o ReplaceDoubleSpace(Tail(s))

\* str.lower() and str.isalnum() over the characters of this model
Lower(s) ==
  [i \in 1..Len(s) |-> IF s[i] = "M" THEN "m" ELSE IF s[i] = "D" THEN "d" ELSE s[i]]

IsAlnum(c) == c \in {"a", "b", "d", "h", "m", "n", "p", "r", "x", "y", "M", "D",
                     "1", "2", "3", "4", "5", "6", "7", "8", "9"}

IsFolderChar(c) == IsAlnum(c) \/ c \in {" ", "_", "-"}

NonEmpty(q) == q # <<>>

\* posixpath.dirname
PosixDirname(path) ==
  LET head == SubSeq(path, 1, RFind(path, "/"))
  IN IF head # <<>> /\ \E i \in 1..Len(head) : head[i] # "/"
     THEN RStrip(head, "/") ELSE head

\* posixpath.basename
PosixBasename(path) == SubSeq(path, RFind(path, "/") + 1, Len(path))

\* posixpath.splitext(name)[1] of a name without a slash: from the last dot
\* on, unless only dots come before it
SplitExt(name) ==
  LET dot == RFind(name, ".")
  IN IF dot > 0 /\ \E i \in 1..(dot - 1) : name[i] # "."
     THEN SubSeq(name, dot, Len(name)) ELSE <<>>

\* posixpath.join(a, b)
PosixJoin(a, b) ==
  IF Len(b) > 0 /\ b[1] = "/" THEN b
  ELSE IF a = <<>> \/ a[Len(a)] = "/" THEN a \o b
  ELSE a \o <<"/">> \o b

RECURSIVE NormComps(_, _, _)
\* the loop of posixpath.normpath over the components still to come
NormComps(comps, new_comps, initial_slashes) ==
  IF comps = <<>> THEN new_comps
  ELSE LET comp == Head(comps)
       IN IF comp = <<>> \/ comp = <<".">>
          THEN NormComps(Tail(comps), new_comps, initial_slashes)
          ELSE IF \/ comp # <<".", ".">>
                  \/ (initial_slashes = 0 /\ new_comps = <<>>)
                  \/ (new_comps # <<>> /\ new_comps[Len(new_comps)] = <<".", ".">>)
          THEN NormComps(Tail(comps), Append(new_comps, comp), initial_slashes)
          ELSE IF new_comps # <<>>
          THEN NormComps(Tail(comps), SubSeq(new_comps, 1, Len(new_comps) - 1),
                         initial_slashes)
          ELSE NormComps(Tail(comps), new_comps, initial_slashes)

\* posixpath.normpath
NormPath(path) ==
  LET initial_slashes ==
        IF Len(path) = 0 \/ path[1] # "/" THEN 0
        ELSE IF Len(path) >= 2 /\ path[2] = "/" /\ ~(Len(path) >= 3 /\ path[3] = "/")
        THEN 2 ELSE 1
      joined == JoinSlash(NormComps(SplitSlash(path), <<>>, initial_slashes))
      out == [i \in 1..initial_slashes |-> "/"] \o joined
  IN IF out = <<>> THEN <<".">> ELSE out

(***************************************************************************)
(* utils.sanitize_path_suggestion and the placement built from its result  *)
(***************************************************************************)
\* the default folder of lines 1314-1327, by the file's extension
DefaultFolder(file_extension) ==
  IF file_extension \in {<<".", "p", "n", "g">>}
  THEN <<"I", "m", "a", "g", "e", "s">>
  ELSE IF file_extension \in {<<".", "m", "d">>, <<".", "p", "d", "f">>}
  THEN <<"D", "o", "c", "u", "m", "e", "n", "t", "s">>
  ELSE <<"F", "i", "l", "e", "s">>

\* line 1287
IsOrContainsFilename(part, filename) ==
  part = PosixBasename(filename) \/ Contains(part, filename)

\* lines 1294-1301
LooksLikeFilename(part) ==
  /\ Contains(part, <<".">>) /\ part[1] # "."
  /\ Lower(SplitExt(part)) # <<>> /\ Len(Lower(SplitExt(part))) <= 5

\* lines 1304-1306
CleanPart(part) == ReplaceDoubleSpace(Strip(SelectSeq(part, IsFolderChar)))

RECURSIVE SanitizeParts(_, _)
\* the while loop of lines 1278-1307: a part that is the filename or looks
\* like a file name is popped, an empty part is left, any other is cleaned
SanitizeParts(path_parts, filename) ==
  IF path_parts = <<>> THEN <<>>
  ELSE LET part == Head(path_parts)
           rest == SanitizeParts(Tail(path_parts), filename)
       IN IF part = <<>> THEN <<part>> \o rest
          ELSE IF IsOrContainsFilename(part, filename) THEN rest
          ELSE IF LooksLikeFilename(part) THEN rest
          ELSE <<CleanPart(part)>> \o rest

\* sanitized_parts[:_MAX_FOLDER_PATH_DEPTH] of line 1311
CapToDepth(parts) ==
  SubSeq(parts, 1, IF Len(parts) < MAX_FOLDER_PATH_DEPTH THEN Len(parts)
                   ELSE MAX_FOLDER_PATH_DEPTH)

\* utils.sanitize_path_suggestion (1241-1330)
SanitizePathSuggestion(suggested_path, filename) ==
  LET raw_path == Strip(suggested_path)
      normalized == ReplaceBackslash(raw_path)
      sanitized_parts == SelectSeq(SanitizeParts(SplitSlash(normalized), filename), NonEmpty)
      sanitized_path == JoinSlash(CapToDepth(sanitized_parts))
  IN IF EndsWith(normalized, filename) THEN PosixDirname(normalized)
     ELSE IF sanitized_path = <<>> THEN DefaultFolder(Lower(SplitExt(filename)))
     ELSE sanitized_path

RECURSIVE DropRepeats(_)
\* lines 631-636: a part equal to the part before it is left out
DropRepeats(parts) ==
  IF Len(parts) < 2 THEN parts
  ELSE IF parts[Len(parts)] = parts[Len(parts) - 1]
  THEN DropRepeats(SubSeq(parts, 1, Len(parts) - 1))
  ELSE Append(DropRepeats(SubSeq(parts, 1, Len(parts) - 1)), parts[Len(parts)])

\* process_document (625-638), process_image (744-757): the archive-relative
\* path of the file, before a numeric suffix is chosen
FinalPathOfFile(sanitized, filename) ==
  NormPath(JoinSlash(DropRepeats(SplitSlash(ReplaceBackslash(PosixJoin(sanitized, filename))))))

\* process_folder (986-992): the suggestion is used as it came
FinalPathOfFolder(suggested_path, folder_name) ==
  NormPath(IF suggested_path # <<>> THEN PosixJoin(suggested_path, folder_name)
           ELSE folder_name)

\* the segments of the folder in which final_path places the item
PlacementFolder(final_path) == SelectSeq(SplitSlash(PosixDirname(final_path)), NonEmpty)

\* names of the items ingested, and the segments a suggestion is made of
PlanNames == {<<"r", ".", "m", "d">>, <<"n">>}

SuggestionParts ==
  PlanNames \cup {<<"a">>, <<".", ".">>, <<".">>, <<>>, <<"x", ".", "p", "y">>,
                  <<"a", "!">>, <<".", "h">>, <<"a", "\\", "b">>, <<"D", "M">>}

PadDigit(i) == <<"1", "2", "3", "4", "5", "6", "7", "8", "9">>[i]

Pad(n) == [i \in 1..n |-> <<"p", PadDigit(i)>>]

Suggestions ==
  {JoinSlash(Pad(n) \o tail) :
     n \in 0..MaxPad,
     tail \in UNION {[1..k -> SuggestionParts] : k \in 0..MaxSugLen}}

PlanUnchanged ==
  UNCHANGED <<inputVars, storeVars, pending, running, timerRef, thr, pass, arEvents,
              nTrig, nArEnv, nReq, dirty, lastPass, histVars, moved, cache, observer, serviceVars>>

\* llm.get_path_from_summary has returned its suggestion for an item
\* (utils.py 617-622, 736-741, 978-982)
GetPathFromSummary ==
  /\ plan.pc = "none"
  /\ \E sp \in Suggestions, fn \in PlanNames, kind \in {"file", "folder"} :
       plan' = [NoPlan EXCEPT !.pc = "suggested", !.kind = kind,
                              !.suggested_path = sp, !.filename = fn]
  /\ PlanUnchanged

\* process_document (625-638) and process_image (744-757)
PlanFile ==
  /\ plan.pc = "suggested" /\ plan.kind = "file"
  /\ LET sanitized == SanitizePathSuggestion(plan.suggested_path, plan.filename)
     IN plan' = [plan EXCEPT !.pc = "planned", !.sanitized = sanitized,
                             !.final_path = FinalPathOfFile(sanitized, plan.filename)]
  /\ PlanUnchanged

\* process_folder (986-992)
PlanFolder ==
  /\ plan.pc = "suggested" /\ plan.kind = "folder"
  /\ plan' = [plan EXCEPT !.pc = "planned", !.sanitized = plan.suggested_path,
                          !.final_path = FinalPathOfFolder(plan.suggested_path,
                                                           plan.filename)]
  /\ PlanUnchanged

NextPlan == GetPathFromSummary \/ PlanFile \/ PlanFolder

SpecPlan == InitIngest /\ [][NextPlan]_vars

(***************************************************************************)
(* Moves and renames within the archive, as the watcher follows them       *)
(***************************************************************************)
InitMove ==
  /\ InitInput
  /\ archive \in InitArchives
  /\ index \in SUBSET ArchivePaths
  /\ faults = FALSE
  /\ InitRecon

NextMove ==
  \/ \E f \in MovedFiles, d \in MoveTargets : ArEnvMoveFile(f, d)
  \/ \E d \in ArchDirs \cup {DirDoc}, e \in MoveTargets : ArEnvMoveDir(d, e)
  \/ ArchiveHandle

SpecMove == InitMove /\ [][NextMove]_vars

(***************************************************************************)
(* The archive watcher alone: files and directories moved, files written   *)
(* and deleted by hand, one event handled at a time                        *)
(***************************************************************************)
NextWatch ==
  \/ \E f \in MovedFiles, d \in MoveTargets : ArEnvMoveFile(f, d)
  \/ \E d \in ArchDirs \cup {DirDoc}, e \in MoveTargets : ArEnvMoveDir(d, e)
  \/ \E f \in MovedFiles : ArEnvWrite(f)
  \/ \E f \in MovedFiles : ArEnvDeleteFile(f)
  \/ ArchiveHandleNoted

SpecWatch == InitMove /\ [][NextWatch]_vars

(***************************************************************************)
(* The archive watcher and the paths it ignores: the index's storage       *)
(* directory, dot-prefixed names, the staging directories of process_folder *)
(* (utils.py 1007-1018, moved or removed at 1101-1120)                     *)
(***************************************************************************)
\* list_archive_files leaves out what has a dot-prefixed component, so no
\* pass writes such an id; it does list the staging directories
Listed(path) == \A k \in 1..Len(path) : ~IsHiddenName(path[k].n) /\ path[k].n[1] # ".chromadb"

InitIgnore ==
  /\ InitInput
  /\ archive = {[path |-> f, size |-> 1] : f \in WatchedFiles}
  /\ index \in {{}, {f \in ArchivePaths : Listed(f)}}
  /\ faults = FALSE
  /\ InitRecon

NextIgnore ==
  \/ \E f \in WatchedFiles : ArEnvCopyIn(f)
  \/ \E d \in WatchedDirs : ArEnvMkdir(d)
  \/ \E f \in WatchedFiles : ArEnvWrite(f)
  \/ \E f \in WatchedFiles : ArEnvDeleteFile(f)
  \/ \E d \in WatchedDirs : ArEnvDeleteDir(d)
  \/ \E f \in WatchedFiles, d \in {DirFin, DirTemp, DirChroma, Outside} : ArEnvMoveFile(f, d)
  \/ \E d \in WatchedDirs, e \in {DirDoc, DirTemp, Outside} : ArEnvMoveDir(d, e)
  \/ ArchiveHandleNoted

SpecIgnore == InitIgnore /\ [][NextIgnore]_vars

(***************************************************************************)
(* The archive watcher's observer thread with an index that may be slow    *)
(***************************************************************************)
NextObserver ==
  \/ \E f \in ArchFiles : ArEnvCreate(f)
  \/ \E f \in ArchFiles : ArEnvWrite(f)
  \/ \E f \in ArchFiles : ArEnvDeleteFile(f)
  \/ \E f \in MovedFiles, d \in MoveTargets : ArEnvMoveFile(f, d)
  \/ ArchiveHandle
  \/ ArchiveHandleSlowly
  \/ IndexCallReturns

SpecObserver == InitMove /\ [][NextObserver]_vars

\* C19: no event of the archive watcher waits in the observer's queue while
\* the observer thread is inside an index call made for an earlier event
C19_NoEventWaitsBehindIndexCall ==
  ~(observer.pc = "index_call" /\ arEvents # <<>>)

(***************************************************************************)
(* PathPlanner (llm.get_path_from_summary, called at utils.py 619-623):    *)
(* the anchoring algorithm, steps 3 to 5                                   *)
(***************************************************************************)
MinNat(a, b) == IF a < b THEN a ELSE b

\* the generic roots of step 3
GenericSegments == {"Documents", "Files", "Misc", "General", "Unsorted"}

\* the canonical token of a segment: lower case, singular
SegmentToken(segment) ==
  CASE segment = "Finance" -> "finance"
    [] segment = "Taxes" -> "tax"
    [] segment = "Photos" -> "photo"
    [] segment = "Documents" -> "document"
    [] segment = "2024" -> "2024"
    [] OTHER -> segment

PathTokens(path) == {SegmentToken(path[i]) : i \in 1..Len(path)}

\* the aliases a domain keyword of the summary brings along
DomainAliases(summary) ==
  IF summary \cap {"tax", "invoice"} # {} THEN {"finance"} ELSE {}

GenericSegmentCount(path) == Cardinality({i \in 1..Len(path) : path[i] \in GenericSegments})

\* step 4, in tenths: 2 x summaryTokenOverlap + 3 x filenameTokenOverlap
\* + 0.6 x (not generic) - 1 x (generic segment count) + 0.1 x min(depth, 7)
AnchorScore(candidate, summary, filename) ==
  20 * Cardinality(PathTokens(candidate) \cap (summary \cup DomainAliases(summary)))
  + 30 * Cardinality(PathTokens(candidate) \cap filename)
  + (IF GenericSegmentCount(candidate) = 0 THEN 6 ELSE 0)
  - 10 * GenericSegmentCount(candidate)
  + (IF Len(candidate) < MAX_FOLDER_PATH_DEPTH THEN Len(candidate)
     ELSE MAX_FOLDER_PATH_DEPTH)

\* the confidence threshold of step 4, in tenths: above what a candidate
\* scores that shares no token (0.6 + 0.1 x 7), within what one shared
\* summary token gives
ConfidenceThreshold == 20

\* the top candidates of step 4 that clear the threshold
Anchors(existingDirectories, summary, filename) ==
  {c \in existingDirectories :
     /\ AnchorScore(c, summary, filename) >= ConfidenceThreshold
     /\ \A o \in existingDirectories :
          AnchorScore(o, summary, filename) <= AnchorScore(c, summary, filename)}

\* step 3
StripGenericRoot(path) ==
  IF Len(path) > 0 /\ path[1] \in GenericSegments THEN Tail(path) ELSE path

ExistingRoots(existingDirectories) == {<<d[1]>> : d \in existingDirectories}

\* step 5a: the suggestion is an existing directory or lies beneath one
IsOrExtends(suggestion, existingDirectories) ==
  \E d \in existingDirectories : StartsWith(suggestion, d)

\* the longest tail of the anchor that the suggestion begins with, by token
Overlap(anchor, suggestion) ==
  LET fits == {k \in 0..MinNat(Len(anchor), Len(suggestion)) :
                 \A i \in 1..k :
                   SegmentToken(anchor[Len(anchor) - k + i]) = SegmentToken(suggestion[i])}
  IN CHOOSE k \in fits : \A j \in fits : j <= k

\* step 5c: the invented root goes unless the anchor ends with it, the
\* segments that repeat the anchor's tail go, the rest is appended
Splice(anchor, suggestion, existingDirectories) ==
  LET overlap == Overlap(anchor, suggestion)
      rest == IF overlap > 0 THEN SubSeq(suggestion, overlap + 1, Len(suggestion))
              ELSE IF <<suggestion[1]>> \notin ExistingRoots(existingDirectories)
              THEN Tail(suggestion)
              ELSE suggestion
  IN anchor \o rest

\* a planner that never splices
ReconcileAsGiven(suggestion, anchor, existingDirectories) == suggestion

\* step 5, for a suggestion that is not empty; anchor: <<>> when there is
\* none, and then the suggestion stands, as a new root (5d) or as the raw
\* suggestion (5e)
Reconcile(suggestion, anchor, existingDirectories) ==
  IF IsOrExtends(suggestion, existingDirectories) THEN suggestion
  ELSE IF <<suggestion[1]>> \in ExistingRoots(existingDirectories) THEN suggestion
  ELSE IF anchor # <<>> THEN Splice(anchor, suggestion, existingDirectories)
  ELSE suggestion

\* the directories, suggestions, summary tokens and filename tokens decided on
PlannerDirectories ==
  {{}, {<<"Photos">>}, {<<"Finance">>, <<"Finance", "Taxes">>},
   {<<"Finance">>, <<"Finance", "Taxes">>, <<"Photos">>},
   {<<"Finance">>, <<"Finance", "Taxes">>, <<"Taxes">>}}
PlannerSuggestions ==
  {<<"Taxes", "2024">>, <<"Taxes">>, <<"2024">>, <<"Finance", "Taxes", "2024">>,
   <<"Documents", "Taxes", "2024">>, <<"Photos", "2024">>}
PlannerSummaries == SUBSET {"tax", "invoice", "holiday"}
PlannerFilenames == {{}, {"tax"}, {"scan"}}

\* PathPlanner.decide(filename, summary, context)
Decide(existingDirectories, raw, summary, filename) ==
  /\ planner.pc = "none"
  /\ LET suggestion == StripGenericRoot(raw)
     IN \E anchor \in IF Anchors(existingDirectories, summary, filename) = {}
                      THEN {<<>>} ELSE Anchors(existingDirectories, summary, filename) :
          planner' = [pc |-> "decided", existingDirectories |-> existingDirectories,
                      suggestion |-> suggestion, summary |-> summary,
                      filename |-> filename, anchor |-> anchor,
                      output |-> Reconcile(suggestion, anchor, existingDirectories)]
  /\ UNCHANGED <<inputVars, storeVars, reconCore, cache, search, upload, context,
                 handled, lifeVars>>

\* the folder has gone to process_document
Decided ==
  /\ planner.pc = "decided"
  /\ planner' = NoPlanner
  /\ UNCHANGED <<inputVars, storeVars, reconCore, cache, search, upload, context,
                 handled, lifeVars>>

NextPlanner ==
  \/ \E existingDirectories \in PlannerDirectories, raw \in PlannerSuggestions,
        summary \in PlannerSummaries, filename \in PlannerFilenames :
       Decide(existingDirectories, raw, summary, filename)
  \/ Decided

SpecPlanner == InitIngest /\ [][NextPlanner]_vars

(***************************************************************************)
(* utils._build_directory_context_payload: the length of what it returns   *)
(***************************************************************************)
RECURSIVE DecimalDigits(_)
\* len(str(n))
DecimalDigits(n) == IF n < 10 THEN 1 ELSE 1 + DecimalDigits(n \div 10)

\* the length of the one directory's name, and of a file name beneath it
DirNameLen == 3
FileNameLen(content) == content.path_len - DirNameLen - 1

ArchiveFileCount(content) == content.indexed + content.unindexed
IndexedFileCount(content) == content.indexed + content.db_only

\* filesystem.directory_tree_for_llm (filesystem_service.py 104-143): a line
\* for the directory, a line for each file, joined by newlines
\* the two connectors are as long as each other
ConnectorLen == Len("|-- ")

TreeLineLen(content) == Len("    ") + ConnectorLen + FileNameLen(content)

TreeLines(content) ==
  IF ArchiveFileCount(content) = 0 THEN 1 ELSE 1 + ArchiveFileCount(content)

FirstTreeLineLen(content) ==
  IF ArchiveFileCount(content) = 0 THEN Len("(archive is empty)")
  ELSE ConnectorLen + DirNameLen + Len("/")

\* the first lines of the tree, with the "... (n additional entries)" line
\* when max_entries cuts it
TreeTextLen(content, max_entries) ==
  LET lines == TreeLines(content)
      kept == IF max_entries > 0 /\ lines > max_entries THEN max_entries ELSE lines
      cut == IF kept < lines
             THEN 1 + Len("... (") + DecimalDigits(lines - kept)
                    + Len(" additional entries)")
             ELSE 0
  IN FirstTreeLineLen(content) + (kept - 1) * (1 + TreeLineLen(content)) + cut

\* limit_text_for_llm (utils.py 324-345) and json.dumps of the text: a newline
\* among the characters kept takes two characters
JsonTreeLen(content, max_chars) ==
  LET max_entries == IF ArchiveFileCount(content) + 200 > 2000
                     THEN ArchiveFileCount(content) + 200 ELSE 2000
      kept == MinNat(TreeTextLen(content, max_entries), max_chars)
      first == FirstTreeLineLen(content)
      newlines == IF kept <= first THEN 0
                  ELSE MinNat(TreeLines(content) - 1,
                              (kept - first - 1) \div (1 + TreeLineLen(content)) + 1)
  IN 2 + kept + newlines

\* json.dumps of _trim_paths_for_prompt(paths, max_items) (381-391), the
\* paths being count strings of item_len characters
JsonPathsLen(count, item_len, max_items) ==
  LET kept == IF max_items <= 0 THEN 0 ELSE MinNat(count, max_items)
      marker == IF max_items > 0 /\ count > max_items
                THEN Len("... (") + DecimalDigits(count - max_items)
                       + Len(" additional paths omitted to fit prompt limits)")
                ELSE 0
      items == kept + (IF marker > 0 THEN 1 ELSE 0)
  IN 2 + kept * (item_len + 2) + (IF marker > 0 THEN marker + 2 ELSE 0)
       + (IF items > 0 THEN items - 1 ELSE 0)

\* "key": in front of a value
JsonKeyLen(key) == Len(key) + 3

JsonStatsLen(content) ==
  2 + JsonKeyLen("archive_file_count") + DecimalDigits(ArchiveFileCount(content))
    + 1 + JsonKeyLen("indexed_file_count") + DecimalDigits(IndexedFileCount(content))
    + 1 + JsonKeyLen("unindexed_file_count") + DecimalDigits(content.unindexed)
    + 1 + JsonKeyLen("db_only_record_count") + DecimalDigits(content.db_only)

\* _extract_directory_prefixes_for_prompt (394-409): the one directory, when
\* the archive has a file
DirectoryCount(content) == IF ArchiveFileCount(content) = 0 THEN 0 ELSE 1

\* the presets of lines 427-432
Variants ==
  <<[tree_chars |-> 12000, archive |-> 1200, indexed |-> 600, unindexed |-> 1200,
     db_only |-> 600],
    [tree_chars |-> 9000, archive |-> 800, indexed |-> 400, unindexed |-> 800,
     db_only |-> 400],
    [tree_chars |-> 7000, archive |-> 500, indexed |-> 250, unindexed |-> 500,
     db_only |-> 250],
    [tree_chars |-> 5000, archive |-> 300, indexed |-> 150, unindexed |-> 300,
     db_only |-> 150]>>

\* len(serialized) of the payload of lines 434-458
VariantLen(content, variant) ==
  2 + JsonKeyLen("archive_tree") + JsonTreeLen(content, variant.tree_chars)
    + 1 + JsonKeyLen("stats") + JsonStatsLen(content)
    + 1 + JsonKeyLen("existing_directories")
        + JsonPathsLen(DirectoryCount(content), DirNameLen, variant.archive)
    + 1 + JsonKeyLen("archive_files")
        + JsonPathsLen(ArchiveFileCount(content), content.path_len, variant.archive)
    + 1 + JsonKeyLen("indexed_files")
        + JsonPathsLen(IndexedFileCount(content), content.path_len, variant.indexed)
    + 1 + JsonKeyLen("unindexed_archive_files")
        + JsonPathsLen(content.unindexed, content.path_len, variant.unindexed)
    + 1 + JsonKeyLen("db_only_index_records")
        + JsonPathsLen(content.db_only, content.path_len, variant.db_only)

\* the minimal_payload of lines 464-476
MinimalLen(content) ==
  2 + JsonKeyLen("archive_tree") + JsonTreeLen(content, 3500)
    + 1 + JsonKeyLen("stats") + JsonStatsLen(content)
    + 1 + JsonKeyLen("existing_directories")
        + JsonPathsLen(DirectoryCount(content), DirNameLen, 200)
    + 1 + JsonKeyLen("unindexed_archive_files")
        + JsonPathsLen(content.unindexed, content.path_len, 120)
    + 1 + JsonKeyLen("db_only_index_records")
        + JsonPathsLen(content.db_only, content.path_len, 120)

\* _build_directory_context_payload (412-476): the first variant that fits
\* max_chars, the minimal payload when none does
BuildDirectoryContextPayload(content, max_chars) ==
  LET fitting == {k \in 1..Len(Variants) : VariantLen(content, Variants[k]) <= max_chars}
  IN IF fitting # {}
     THEN [preset |-> "variant",
           chars |-> VariantLen(content, Variants[MinOf(fitting)])]
     ELSE [preset |-> "minimal", chars |-> MinimalLen(content)]

\* the archive contents the context is built from
ContextContents ==
  [indexed : {0, 1, 300, 2000}, unindexed : {0, 1, 120, 121},
   db_only : {0, 1, 121}, path_len : {20, 80, 150}]

\* directory_structure_for_llm (484-511) building the context anew
BuildContext(content) ==
  /\ context.pc = "none"
  /\ LET built == BuildDirectoryContextPayload(content, 18000)
     IN context' = [pc |-> "built", content |-> content, preset |-> built.preset,
                    chars |-> built.chars]
  /\ UNCHANGED <<inputVars, storeVars, reconCore, cache, search, upload, planner,
                 handled, lifeVars>>

\* the except clause of directory_structure_for_llm (506-511): the tree alone
BuildContextFails(content) ==
  /\ context.pc = "none"
  /\ context' = [pc |-> "built", content |-> content, preset |-> "fallback",
                 chars |-> TreeTextLen(content, 800)]
  /\ UNCHANGED <<inputVars, storeVars, reconCore, cache, search, upload, planner,
                 handled, lifeVars>>

\* the context has gone to the model
ContextServed ==
  /\ context.pc = "built"
  /\ context' = NoContext
  /\ UNCHANGED <<inputVars, storeVars, reconCore, cache, search, upload, planner,
                 handled, lifeVars>>

NextPayload ==
  \/ \E content \in ContextContents : BuildContext(content)
  \/ \E content \in ContextContents : BuildContextFails(content)
  \/ ContextServed

SpecPayload == InitIngest /\ [][NextPayload]_vars

(***************************************************************************)
(* POST /upload: process_document called by the web server, on its thread, *)
(* beside the input watcher's pipeline                                     *)
(***************************************************************************)
UploadUnchanged ==
  UNCHANGED <<inputVars, pending, running, timerRef, thr, arEvents, nTrig, nArEnv, nReq,
              lastPass, histVars, moved, plan, observer, search, context, planner,
              handled, lifeVars>>

\* upload_file (endpoints.py 393-412) for a document: the body is read and
\* process_document entered
UploadFile(filename) ==
  /\ upload.pc = "none"
  /\ filename[Len(filename)] \in DOCUMENT_EXTENSIONS
  /\ upload' = [upload EXCEPT !.pc = "llm", !.filename = filename]
  /\ UNCHANGED <<storeVars, cache, dirty, pass>>
  /\ UploadUnchanged

\* process_document, lines 552-637: context, extraction, summary and path
\* suggestion; any of them may raise, and the request fails
UploadLlm ==
  /\ upload.pc = "llm"
  /\ cache' = DirectoryStructureForLlm(cache)
  /\ \/ upload' = [upload EXCEPT !.pc = "done"]
     \/ \E d \in ArchDirs : upload' = [upload EXCEPT !.pc = "unique", !.dir = d]
  /\ UNCHANGED <<storeVars, dirty, pass>>
  /\ UploadUnchanged

\* line 639: _ensure_unique_relative_path looks at the archive
UploadUnique ==
  /\ upload.pc = "unique"
  /\ FreeSuffixes(ArchivePaths, upload.dir, upload.filename) # {}
  /\ upload' = [upload EXCEPT
                  !.pc = "save",
                  !.dest = EnsureUniqueRelativePath(ArchivePaths, upload.dir,
                                                    upload.filename)]
  /\ UNCHANGED <<storeVars, cache, dirty, pass>>
  /\ UploadUnchanged

\* lines 642-645: save_file opens the path for writing, whatever is there now
UploadSave ==
  /\ upload.pc = "save"
  /\ \/ /\ archive' = SaveFile(archive, upload.dest, 1)
        /\ cache' = InvalidateDirectoryContextCache(cache)
        /\ upload' = [upload EXCEPT !.pc = "index",
                                    !.overwrote = upload.dest \in ArchivePaths]
     \/ /\ upload' = [upload EXCEPT !.pc = "done"]
        /\ UNCHANGED <<archive, cache>>
  /\ UNCHANGED <<index, faults>>
  /\ StoreTouch(NoExecutor)
  /\ UploadUnchanged

\* lines 646-668
UploadIndex ==
  /\ upload.pc = "index"
  /\ \E ok \in BOOLEAN :
       /\ index' = AddToCollection(index, upload.dest, ok)
       /\ faults' = (faults \/ ~ok)
       /\ upload' = [upload EXCEPT !.pc = "done",
                                   !.result = ResultAfterIndexWrite(upload.dest, ok)]
  /\ UNCHANGED <<archive, cache>>
  /\ StoreTouch(NoExecutor)
  /\ UploadUnchanged

NextUpload ==
  \/ EnvCreate(FileG)
  \/ OnCreatedFile(FileG)
  \/ WorkerTake
  \/ \E i \in TaskIds : FileStart(i)
  \/ \E i \in TaskIds : FilePoll(i)
  \/ \E i \in TaskIds : FileCheck(i)
  \/ \E i \in TaskIds : FileRead(i)
  \/ \E i \in TaskIds : FileResult(i)
  \/ \E i \in TaskIds : FileTimeout(i)
  \/ \E i \in TaskIds : FilePost(i)
  \/ \E i \in TaskIds : FileFinally(i)
  \/ \E i \in TaskIds : PipeLlm(i)
  \/ \E i \in TaskIds : PipeSave(i)
  \/ \E i \in TaskIds : PipeIndex(i)
  \/ UploadFile(FileG)
  \/ UploadLlm
  \/ UploadUnique
  \/ UploadSave
  \/ UploadIndex

SpecUpload == InitIngest /\ [][NextUpload]_vars

(***************************************************************************)
(* A reconciliation pass of the endpoint beside the ingestion of a file    *)
(***************************************************************************)
NextRace ==
  \/ EnvCreate(FileG)
  \/ OnCreatedFile(FileG)
  \/ WorkerTake
  \/ \E i \in TaskIds : FileStart(i)
  \/ \E i \in TaskIds : FilePoll(i)
  \/ \E i \in TaskIds : FileCheck(i)
  \/ \E i \in TaskIds : FileRead(i)
  \/ \E i \in TaskIds : FileResult(i)
  \/ \E i \in TaskIds : FilePost(i)
  \/ \E i \in TaskIds : FileFinally(i)
  \/ \E i \in TaskIds : PipeLlm(i)
  \/ \E i \in TaskIds : PipeSave(i)
  \/ \E i \in TaskIds : PipeIndex(i)
  \/ PassFs(0)
  \/ PassIdx(0)
  \/ PassAdd(0)
  \/ PassRemove(0)
  \/ EndpointRequest(MaxOverlap)
  \/ EndpointReturn

SpecRace == InitArchive /\ [][NextRace]_vars

(***************************************************************************)
(* utils.process_folder: the staging copy and the move or merge into the   *)
(* destination, for a folder with sub-directories.  A file of the folder   *)
(* is written by its path inside the folder.                               *)
(***************************************************************************)
MergeFile == Seg(<<"f", ".txt">>, 0)
RelTop == <<MergeFile>>
RelSub == <<Seg(<<"s">>, 0), MergeFile>>
RelDeep == <<Seg(<<"s">>, 0), Seg(<<"t">>, 0), MergeFile>>
RelHidden == <<Seg(<<"s">>, 0), Seg(<<".", "h">>, 0)>>
FolderFiles == {RelTop, RelSub, RelDeep, RelHidden}
FolderContents == (SUBSET FolderFiles) \ {{}}

\* dest_path, and the files that may be beneath it before the folder arrives
\* (empty files, so that they are told from the files of the folder)
MergeDest == DirFin \o <<Seg(<<"d">>, 0)>>
MergeExisting ==
  {MergeDest \o RelTop, MergeDest \o RelSub,
   MergeDest \o <<Seg(<<"s">>, 0), NameA>>,
   MergeDest \o <<Seg(<<"s">>, 0), Seg(<<"t">>, 0), NameA>>}

\* lines 1058-1067, 1070-1078: shutil.copy2 to the name itself when it is
\* free, otherwise to name_1, name_2, ...
CopyTarget(paths, dir, segment) ==
  IF ~ArchExists(paths, dir \o <<segment>>) THEN dir \o <<segment>>
  ELSE EnsureUniqueRelativePath(paths, dir, segment.n)

\* lines 1037-1137: where the file rel of the staging copy is put, None when
\* no branch of the merge copies it.  A destination that does not exist
\* takes the staging directory whole (shutil.move); an item whose name is
\* free is copied whole (copytree); inside an existing directory of the
\* destination the items are looked at once more, and a sub-directory
\* found there that exists already is passed over
MergedTo(paths, dest, rel) ==
  IF ~ArchExists(paths, dest) THEN dest \o rel
  ELSE IF Len(rel) = 1 THEN CopyTarget(paths, dest, rel[1])
  ELSE IF ~ArchExists(paths, dest \o <<rel[1]>>) THEN dest \o rel
  ELSE IF Len(rel) = 2 THEN CopyTarget(paths, dest \o <<rel[1]>>, rel[2])
  ELSE IF ~ArchExists(paths, dest \o SubSeq(rel, 1, 2)) THEN dest \o rel
  ELSE None

MergeUnchanged ==
  UNCHANGED <<inputVars, pending, running, timerRef, thr, arEvents, nTrig, nArEnv, nReq,
              lastPass, histVars, moved, plan, observer, search, upload, context,
              planner, handled, watchers>>

\* a folder holding the files fs has been created in the input root and
\* process_folder has planned its destination (lines 960-998)
MergeStart(fs) ==
  /\ merge.pc = "none"
  /\ merge' = [NoMerge EXCEPT !.pc = "stage", !.files = fs, !.present = TRUE]
  /\ UNCHANGED <<storeVars, dirty, pass, cache>>
  /\ MergeUnchanged

\* lines 1007-1018: the staging copy; copytree may raise
MergeStage ==
  /\ merge.pc = "stage"
  /\ \/ merge' = [merge EXCEPT !.pc = "done", !.result = None]
     \/ merge' = [merge EXCEPT !.pc = "move", !.temp = merge.files]
  /\ UNCHANGED <<storeVars, dirty, pass, cache>>
  /\ MergeUnchanged

\* lines 1033-1150: the staging copy is moved or merged into the destination
\* and removed; an exception ends the ingestion with None
MergeMove ==
  /\ merge.pc = "move"
  /\ \/ /\ merge' = [merge EXCEPT !.pc = "done", !.result = None, !.temp = {}]
        /\ UNCHANGED <<archive, cache>>
     \/ /\ \A rel \in merge.temp :
              FreeSuffixes(ArchivePaths, MergeDest \o SubSeq(rel, 1, Len(rel) - 1),
                           rel[Len(rel)].n) # {}
        /\ LET placed == {rel \in merge.temp : MergedTo(ArchivePaths, MergeDest, rel) # None}
           IN /\ archive' = archive \cup
                   {[path |-> MergedTo(ArchivePaths, MergeDest, rel), size |-> MaxSize] :
                      rel \in placed}
              /\ merge' = [merge EXCEPT !.pc = "index", !.temp = {},
                                        !.skipped = merge.temp \ placed]
        /\ cache' = InvalidateDirectoryContextCache(cache)
  /\ UNCHANGED <<index, faults>>
  /\ StoreTouch(NoExecutor)
  /\ MergeUnchanged

\* lines 1152-1230: the files now under the destination are indexed, hidden
\* ones left out, and final_path is returned
MergeIndex ==
  /\ merge.pc = "index"
  /\ LET files_to_process ==
           {q \in ArchivePaths : /\ StartsWith(q, MergeDest)
                                 /\ ~IsHiddenName(q[Len(q)].n)
                                 /\ HasContent(archive, q)}
     IN \E okset \in SUBSET files_to_process :
          /\ index' = index \cup okset
          /\ faults' = (faults \/ okset # files_to_process)
  /\ merge' = [merge EXCEPT !.pc = "done", !.result = MergeDest]
  /\ UNCHANGED <<archive, cache>>
  /\ StoreTouch(NoExecutor)
  /\ MergeUnchanged

\* InputDirectoryHandler._delayed_process_folder, lines 473-492: a result that
\* is not None has the source folder removed; shutil.rmtree may raise
MergePost ==
  /\ merge.pc = "done"
  /\ \/ /\ merge.result # None /\ merge.present
        /\ merge' = [merge EXCEPT !.pc = "end", !.present = FALSE]
     \/ merge' = [merge EXCEPT !.pc = "end"]
  /\ UNCHANGED <<storeVars, dirty, pass, cache>>
  /\ MergeUnchanged

InitMerge ==
  /\ InitInput
  /\ \E had \in SUBSET MergeExisting : archive = {[path |-> q, size |-> 0] : q \in had}
  /\ index = {}
  /\ faults = FALSE
  /\ InitRecon

NextMerge ==
  \/ \E fs \in FolderContents : MergeStart(fs)
  \/ MergeStage
  \/ MergeMove
  \/ MergeIndex
  \/ MergePost

SpecMerge == InitMerge /\ [][NextMerge]_vars

(***************************************************************************)
(* main.restart_file_watcher and the generations of observers it makes     *)
(***************************************************************************)
\* Observer.stop() on the observer of generation g, when there is one
StopObserver(states, g) == IF g = 0 THEN states ELSE [states EXCEPT ![g] = "stopped"]

\* InputDirectoryHandler.shutdown (380-384) on the handler of generation g
ShutdownPool(pools, g) == IF g = 0 THEN pools ELSE [pools EXCEPT ![g] = "shutdown"]

\* lines 187-200: the current input observer is stopped, its handler shut down
InputStopped(w) ==
  [w EXCEPT !.input = StopObserver(w.input, w.global_observer),
            !.pool = ShutdownPool(w.pool, w.global_observer)]

\* lines 202-226: reading settings.WATCH_INPUT_DIR raises AttributeError when
\* the attribute was never set, and the call ends there
InputRestarted(w, g) ==
  IF w.WATCH_INPUT_DIR = "unset" THEN [w EXCEPT !.raised = TRUE]
  ELSE IF w.WATCH_INPUT_DIR = "on"
  THEN [w EXCEPT !.input[g] = "scheduled", !.pool[g] = "open", !.global_observer = g]
  ELSE [w EXCEPT !.global_observer = 0]

\* lines 228-264: the current archive observer is stopped and a new one made
ArchiveRestarted(w, g) ==
  IF w.raised THEN w
  ELSE [w EXCEPT !.archive = [StopObserver(w.archive, w.global_archive_observer)
                                EXCEPT ![g] = "scheduled"],
                 !.global_archive_observer = g]

\* main.restart_file_watcher (181-274), the whole call under observer_lock
RestartFileWatcher(w) ==
  LET g == w.calls + 1
      called == [w EXCEPT !.calls = g, !.raised = FALSE]
  IN ArchiveRestarted(InputRestarted(InputStopped(called), g), g)

WatchersUnchanged ==
  UNCHANGED <<inputVars, storeVars, reconCore, cache, search, upload, context, planner,
              handled, merge>>

\* lifespan (279-304): the first call, at server start; the exception is
\* caught and logged
Lifespan ==
  /\ watchers.calls = 0
  /\ watchers' = RestartFileWatcher(watchers)
  /\ WatchersUnchanged

\* PUT /directories (endpoints.py 551-596): the setting is written, then the
\* watchers are restarted
UpdateDirectories(watch_input_dir) ==
  /\ watchers.calls \in 1..(MaxRestarts - 1)
  /\ watchers' = RestartFileWatcher(
                    [watchers EXCEPT !.WATCH_INPUT_DIR =
                                        IF watch_input_dir THEN "on" ELSE "off"])
  /\ WatchersUnchanged

\* _run_observer_with_event_loop (1058-1077) on the thread made for the
\* observer of generation g: observer.start(); an observer stopped before
\* its thread got here watches nothing
ObserverThreadRun(kind, g) ==
  /\ watchers[kind][g] = "scheduled"
  /\ watchers' = [watchers EXCEPT ![kind][g] = "running"]
  /\ WatchersUnchanged

\* something happens in the watched directory: every running observer of
\* that directory hands the event to its handler
WatchEvent(kind) ==
  /\ Len(watchers.events) < MaxWatchEvents
  /\ watchers' = [watchers EXCEPT !.events =
                    Append(@, [kind |-> kind,
                               by |-> {g \in Gens : watchers[kind][g] = "running"}])]
  /\ WatchersUnchanged

NextWatchers ==
  \/ Lifespan
  \/ \E b \in BOOLEAN : UpdateDirectories(b)
  \/ \E kind \in {"input", "archive"}, g \in Gens : ObserverThreadRun(kind, g)
  \/ \E kind \in {"input", "archive"} : WatchEvent(kind)

SpecWatchers == InitIngest /\ [][NextWatchers]_vars

(***************************************************************************)
(* GET /query: ranking of the semantic results and the cached index paths  *)
(***************************************************************************)
(***************************************************************************)
(* GET /query: endpoints._rank_search_results.  File names of the search   *)
(* universe are written character by character.                            *)
(***************************************************************************)
Uppers == <<"A", "B", "C", "D", "E", "F", "G", "H", "I", "J", "K", "L", "M",
           "N", "O", "P", "Q", "R", "S", "T", "U", "V", "W", "X", "Y", "Z">>
Lowers == <<"a", "b", "c", "d", "e", "f", "g", "h", "i", "j", "k", "l", "m",
           "n", "o", "p", "q", "r", "s", "t", "u", "v", "w", "x", "y", "z">>
Digits == <<"0", "1", "2", "3", "4", "5", "6", "7", "8", "9">>

\* the characters in the order of their code points
CharOrder == <<" ", "-", ".", "/">> \o Digits \o Uppers \o <<"_">> \o Lowers

Chars == {CharOrder[i] : i \in 1..Len(CharOrder)}

LowerChar ==
  [c \in Chars |-> IF \E i \in 1..Len(Uppers) : Uppers[i] = c
                   THEN Lowers[CHOOSE i \in 1..Len(Uppers) : Uppers[i] = c] ELSE c]

\* str.lower()
StrLower(s) == [i \in 1..Len(s) |-> LowerChar[s[i]]]

Ord == [c \in Chars |-> CHOOSE i \in 1..Len(CharOrder) : CharOrder[i] = c]

RECURSIVE StrLess(_, _)
\* s < t for Python strings
StrLess(s, t) ==
  IF t = <<>> THEN FALSE
  ELSE IF s = <<>> THEN TRUE
  ELSE IF Head(s) # Head(t) THEN Ord[Head(s)] < Ord[Head(t)]
  ELSE StrLess(Tail(s), Tail(t))

\* endpoints.py 48-70, 72-101, 103-120
PREFERRED_USER_FILE_EXTENSIONS ==
  {<<"c", "s", "v">>, <<"d", "o", "c">>, <<"d", "o", "c", "x">>, <<"g", "i", "f">>,
   <<"h", "e", "i", "c">>, <<"h", "e", "i", "f">>, <<"j", "p", "e", "g">>, <<"j", "p", "g">>,
   <<"k", "e", "y">>, <<"m", "d">>, <<"n", "u", "m", "b", "e", "r", "s">>,
   <<"p", "a", "g", "e", "s">>, <<"p", "d", "f">>, <<"p", "n", "g">>, <<"p", "p", "t">>,
   <<"p", "p", "t", "x">>, <<"r", "t", "f">>, <<"t", "x", "t">>, <<"w", "e", "b", "p">>,
   <<"x", "l", "s">>, <<"x", "l", "s", "x">>}

CODE_FILE_EXTENSIONS ==
  {<<"b", "a", "s", "h">>, <<"c">>, <<"c", "c">>, <<"c", "p", "p">>, <<"c", "s", "s">>,
   <<"g", "o">>, <<"h">>, <<"h", "p", "p">>, <<"h", "t", "m", "l">>, <<"j", "a", "v", "a">>,
   <<"j", "s">>, <<"j", "s", "o", "n">>, <<"j", "s", "x">>, <<"k", "t">>, <<"p", "h", "p">>,
   <<"p", "y">>, <<"r", "b">>, <<"r", "s">>, <<"s", "c", "s", "s">>, <<"s", "h">>,
   <<"s", "q", "l">>, <<"s", "w", "i", "f", "t">>, <<"t", "s">>, <<"t", "s", "x">>,
   <<"x", "m", "l">>, <<"y", "a", "m", "l">>, <<"y", "m", "l">>, <<"z", "s", "h">>}

CODE_QUERY_HINTS ==
  {<<"a", "p", "i">>, <<"b", "a", "c", "k", "e", "n", "d">>, <<"c", "l", "a", "s", "s">>,
   <<"c", "o", "d", "e">>, <<"c", "s", "s">>, <<"f", "r", "o", "n", "t", "e", "n", "d">>,
   <<"f", "u", "n", "c", "t", "i", "o", "n">>, <<"h", "t", "m", "l">>,
   <<"j", "a", "v", "a", "s", "c", "r", "i", "p", "t">>, <<"j", "s", "o", "n">>,
   <<"p", "y", "t", "h", "o", "n">>, <<"s", "c", "r", "i", "p", "t">>, <<"s", "q", "l">>,
   <<"t", "y", "p", "e", "s", "c", "r", "i", "p", "t">>, <<"x", "m", "l">>,
   <<"y", "a", "m", "l">>}

\* re.split(r"[^a-z0-9]+", ...) reads a token while the characters are these
TokenChars == {Lowers[i] : i \in 1..Len(Lowers)} \cup {Digits[i] : i \in 1..Len(Digits)}

IsTokenChar(c) == c \in TokenChars

RECURSIVE SplitTokens(_, _)
SplitTokens(s, cur) ==
  IF s = <<>> THEN (IF cur = <<>> THEN <<>> ELSE <<cur>>)
  ELSE IF IsTokenChar(Head(s)) THEN SplitTokens(Tail(s), Append(cur, Head(s)))
  ELSE (IF cur = <<>> THEN <<>> ELSE <<cur>>) \o SplitTokens(Tail(s), <<>>)

IsSearchToken(token) == Len(token) >= 2

\* _search_tokens (238-239)
SearchTokens(text) == SelectSeq(SplitTokens(StrLower(text), <<>>), IsSearchToken)

RECURSIVE Gcd(_, _)
Gcd(a, b) == IF b = 0 THEN a ELSE Gcd(b, a % b)

\* scores are kept as fractions num/den in lowest terms with den > 0, where the
\* code has floats
Q(n, d) ==
  LET g == Gcd(IF n < 0 THEN 0 - n ELSE n, d)
  IN [num |-> n \div g, den |-> d \div g]
QAdd(x, y) == Q(x.num * y.den + y.num * x.den, x.den * y.den)
QMul(x, y) == Q(x.num * y.num, x.den * y.den)
QLess(x, y) == x.num * y.den < y.num * x.den
QEq(x, y) == x.num * y.den = y.num * x.den

\* a distance of the semantic results; none: Python None
NoDistance == [none |-> TRUE, d |-> 0]
Distance(d) == [none |-> FALSE, d |-> d]

\* _semantic_score (242-249)
SemanticScore(distance) ==
  IF distance.none THEN Q(0, 1)
  ELSE Q(1, 1 + (IF distance.d > 0 THEN distance.d ELSE 0))

\* _query_prefers_code (252-255)
QueryPrefersCode(tokens, normalized_query) ==
  \/ \E i \in 1..Len(tokens) :
       tokens[i] \in CODE_QUERY_HINTS \/ tokens[i] \in CODE_FILE_EXTENSIONS
  \/ normalized_query \in CODE_FILE_EXTENSIONS

\* _file_type_priority_score (258-267)
FileTypePriorityScore(extension, query_tokens, prefers_code) ==
  IF \E i \in 1..Len(query_tokens) : query_tokens[i] = extension THEN Q(12, 10)
  ELSE IF extension \in PREFERRED_USER_FILE_EXTENSIONS THEN Q(10, 10)
  ELSE IF extension \in CODE_FILE_EXTENSIONS
  THEN (IF prefers_code THEN Q(2, 10) ELSE Q(0 - 9, 10))
  ELSE IF extension = <<>> THEN Q(0 - 2, 10)
  ELSE Q(1, 10)

\* pathlib: PurePath.name, .suffix and .stem of a relative path
PathName(path) == PosixBasename(RStrip(path, "/"))

PathSuffix(path) ==
  LET name == PathName(path)
      dot == RFind(name, ".")
  IN IF 1 < dot /\ dot < Len(name) THEN SubSeq(name, dot, Len(name)) ELSE <<>>

PathStem(path) ==
  LET name == PathName(path)
      dot == RFind(name, ".")
  IN IF 1 < dot /\ dot < Len(name) THEN SubSeq(name, 1, dot - 1) ELSE name

\* difflib.SequenceMatcher.find_longest_match over all of a and b: the longest
\* common block, the earliest in a and then the earliest in b among equals
MatchingBlocks(a, b) ==
  {m \in (1..Len(a)) \X (1..Len(b)) \X (1..Len(a)) :
     /\ m[1] + m[3] - 1 <= Len(a) /\ m[2] + m[3] - 1 <= Len(b)
     /\ SubSeq(a, m[1], m[1] + m[3] - 1) = SubSeq(b, m[2], m[2] + m[3] - 1)}

LongestMatch(blocks) ==
  CHOOSE m \in blocks :
    \A o \in blocks :
      \/ m[3] > o[3]
      \/ m[3] = o[3] /\ m[1] < o[1]
      \/ m[3] = o[3] /\ m[1] = o[1] /\ m[2] <= o[2]

RECURSIVE MatchingChars(_, _)
\* the sum of the sizes of get_matching_blocks()
MatchingChars(a, b) ==
  LET blocks == MatchingBlocks(a, b)
  IN IF blocks = {} THEN 0
     ELSE LET m == LongestMatch(blocks)
          IN m[3] + MatchingChars(SubSeq(a, 1, m[1] - 1), SubSeq(b, 1, m[2] - 1))
                  + MatchingChars(SubSeq(a, m[1] + m[3], Len(a)),
                                  SubSeq(b, m[2] + m[3], Len(b)))

\* SequenceMatcher(None, a, b).ratio()
Ratio(a, b) ==
  IF Len(a) + Len(b) = 0 THEN Q(1, 1) ELSE Q(2 * MatchingChars(a, b), Len(a) + Len(b))

\* the first part of _filename_match_score (277-287), in hundredths
QueryMatchScore(relative_path, query) ==
  LET filename == StrLower(PathName(relative_path))
      stem == StrLower(PathStem(relative_path))
      path_text == StrLower(relative_path)
  IN IF stem = query \/ filename = query THEN 280
     ELSE IF StartsWith(stem, query) THEN 210
     ELSE IF Contains(stem, query) THEN 150
     ELSE IF Contains(path_text, query) THEN 80
     ELSE 0

RECURSIVE TokenMatchScore(_, _)
\* the loop over query_tokens (289-296), in hundredths
TokenMatchScore(relative_path, query_tokens) ==
  IF query_tokens = <<>> THEN 0
  ELSE LET stem == StrLower(PathStem(relative_path))
           stem_tokens == SearchTokens(stem)
           token == Head(query_tokens)
           this == IF \E i \in 1..Len(stem_tokens) : stem_tokens[i] = token THEN 90
                   ELSE IF Contains(stem, token) THEN 45
                   ELSE IF Contains(StrLower(relative_path), token) THEN 20
                   ELSE 0
       IN this + TokenMatchScore(relative_path, Tail(query_tokens))

\* _filename_match_score (270-298)
FilenameMatchScore(relative_path, query, query_tokens) ==
  LET stem == StrLower(PathStem(relative_path))
      of_query == IF query = <<>> THEN Q(0, 1)
                  ELSE QAdd(Q(QueryMatchScore(relative_path, query), 100),
                            QMul(Ratio(query, stem), Q(8, 10)))
  IN QAdd(of_query, Q(TokenMatchScore(relative_path, query_tokens), 100))

\* _is_hidden_path (213-220): Path(path).parts has no empty and no "." part
IsHiddenPath(path) ==
  LET parts == SplitSlash(path)
  IN \E i \in 1..Len(parts) :
       parts[i] # <<>> /\ parts[i] # <<".">> /\ parts[i][1] = "."

\* the text of a path of the model: its segment names joined by "/" (the
\* search universe has no suffixed name); an empty first name makes it absolute
PathText(p) == JoinSlash([i \in 1..Len(p) |-> p[i].n])

\* settings.ARCHIVE_DIR
ArchiveDirText == <<"/", "A">>

\* os.path.join(settings.ARCHIVE_DIR, relative_path)
AbsolutePath(relative_path) == PosixJoin(ArchiveDirText, relative_path)

\* the files of the search universe, and the ids an index can hold besides:
\* one under a hidden directory, and the absolute path process_document
\* (utils.py 625-653) saves to and upserts when filename or suggestion is absolute
APy == <<Seg(<<"a", ".", "p", "y">>, 0)>>
AbPdf == <<Seg(<<"a", "b", ".", "p", "d", "f">>, 0)>>
HidA == <<Seg(<<".", "h">>, 0), Seg(<<"a", ".", "m", "d">>, 0)>>
AbsA == <<Seg(<<>>, 0), Seg(<<"x">>, 0), Seg(<<"a", ".", "m", "d">>, 0)>>
SearchFiles == {APy, AbPdf}
SearchIds == SearchFiles \cup {HidA, AbsA}
\* files outside ARCHIVE_DIR
OutsideFiles == {PathText(AbsA)}

\* os.path.exists(absolute_path)
PathExists(arch, absolute_path) ==
  \/ \E r \in arch : AbsolutePath(PathText(r.path)) = absolute_path
  \/ absolute_path \in OutsideFiles

ExistingPaths(arch) == {AbsolutePath(PathText(r.path)) : r \in arch} \cup OutsideFiles

\* the first loop of _rank_search_results (330-345): ids of the semantic
\* results with the least of their distances, None when none is given; at: the
\* place of the id in the dict, the one of its first result
SemanticCandidates(semantic) ==
  LET ids == {semantic[i].id : i \in 1..Len(semantic)}
      given(id) == {semantic[i].distance.d :
                      i \in {j \in 1..Len(semantic) :
                               semantic[j].id = id /\ ~semantic[j].distance.none}}
      first(id) == CHOOSE i \in 1..Len(semantic) :
                     semantic[i].id = id /\ \A j \in 1..(i - 1) : semantic[j].id # id
  IN {[relative_path |-> PathText(id),
       distance |-> IF given(id) = {} THEN NoDistance
                    ELSE Distance(CHOOSE d \in given(id) : \A e \in given(id) : d <= e),
       at |-> first(id)] : id \in ids}

\* the second loop (347-360): cached paths, in sorted order, that contain the
\* query or a token and are no candidate yet
CachedCandidates(paths, taken, after, normalized_query, query_tokens) ==
  LET matching == {x \in paths :
                     /\ x \notin taken
                     /\ ~IsHiddenPath(x)
                     /\ \/ normalized_query # <<>> /\ Contains(StrLower(x), normalized_query)
                        \/ \E i \in 1..Len(query_tokens) :
                             Contains(StrLower(x), query_tokens[i])}
  IN {[relative_path |-> p, distance |-> NoDistance,
       at |-> after + Cardinality({x \in matching : x = p \/ StrLess(x, p)})] :
        p \in matching}

\* one entry of ranked (362-383)
Scored(c, normalized_query, query_tokens, prefers_code) ==
  LET extension == LStrip(StrLower(PathSuffix(c.relative_path)), ".")
      semantic == SemanticScore(c.distance)
      name_score == FilenameMatchScore(c.relative_path, normalized_query, query_tokens)
      type_score == FileTypePriorityScore(extension, query_tokens, prefers_code)
  IN [final_score |-> QAdd(QAdd(QMul(semantic, Q(32, 10)), QMul(name_score, Q(17, 10))),
                           type_score),
      semantic |-> semantic, name_score |-> name_score, type_score |-> type_score,
      absolute_path |-> AbsolutePath(c.relative_path),
      relative_path |-> c.relative_path, distance |-> c.distance]

\* the order of the sort key (385-388)
KeyLess(x, y) ==
  IF ~QEq(x.final_score, y.final_score) THEN QLess(x.final_score, y.final_score)
  ELSE IF ~QEq(x.semantic, y.semantic) THEN QLess(x.semantic, y.semantic)
  ELSE IF ~QEq(x.name_score, y.name_score) THEN QLess(x.name_score, y.name_score)
  ELSE IF ~QEq(x.type_score, y.type_score) THEN QLess(x.type_score, y.type_score)
  ELSE StrLess(x.absolute_path, y.absolute_path)

RECURSIVE SortedDescending(_)
\* ranked.sort(key=..., reverse=True); the absolute paths of ranked differ
SortedDescending(items) ==
  IF items = {} THEN <<>>
  ELSE LET top == CHOOSE x \in items : \A y \in items \ {x} : KeyLess(y, x)
       IN <<top>> \o SortedDescending(items \ {top})

\* _rank_search_results (316-390) over the cached paths it is given
RankSearchResults(arch, paths, query_text, semantic) ==
  LET normalized_query == StrLower(Strip(query_text))
      query_tokens == SearchTokens(normalized_query)
      prefers_code == QueryPrefersCode(query_tokens, normalized_query)
      from_semantic == SemanticCandidates(semantic)
      candidates == from_semantic \cup
                    CachedCandidates({PathText(p) : p \in paths},
                                     {c.relative_path : c \in from_semantic},
                                     Len(semantic), normalized_query, query_tokens)
      passing == {c \in candidates :
                    /\ ~IsHiddenPath(c.relative_path)
                    /\ ~IsHiddenPath(AbsolutePath(c.relative_path))
                    /\ PathExists(arch, AbsolutePath(c.relative_path))}
      \* seen: of the passing candidates with one absolute path the first is kept
      kept == {c \in passing :
                 \A x \in passing :
                   AbsolutePath(x.relative_path) = AbsolutePath(c.relative_path)
                     => c.at <= x.at}
  IN SortedDescending({Scored(c, normalized_query, query_tokens, prefers_code) :
                         c \in kept})

\* ranked[:n_results]
FirstN(seq, n) == SubSeq(seq, 1, IF n < Len(seq) THEN n ELSE Len(seq))

\* filesystem.list_archive_files (filesystem_service.py 76-101): the files not
\* below a hidden directory and not hidden themselves
ListArchiveFiles(arch) ==
  {r.path : r \in {x \in arch : \A k \in 1..Len(x.path) : ~IsHiddenName(x.path[k].n)}}

\* _cached_indexed_paths (300-315); ok: chroma.list_indexed_paths returned the
\* ids (it returns an empty set when the index fails)
CachedIndexedPaths(ok) ==
  IF search.paths # {} /\ search.fresh THEN search.paths
  ELSE IF ok /\ index # {} THEN index
  ELSE ListArchiveFiles(archive)

\* the queries, the counts asked for and the semantic results of GET /query
SearchQueries == {<<"a", "b">>, <<" ", "A">>}
SearchCounts == {0, 51}
MaxSemantic == 2
\* collection.query gives a distance with every id
SearchDistances == {Distance(0), Distance(1)}
SemanticResults ==
  UNION {[1..k -> [id : SearchIds, distance : SearchDistances]] : k \in 0..MaxSemantic}

\* GET /query (427-459): chroma.query_collection returns ids of the index
Query(query_text, n_results, semantic, ok) ==
  /\ search.pc = "none"
  /\ query_text # <<>>
  /\ ok \/ ~(search.paths # {} /\ search.fresh)
  /\ \A i \in 1..Len(semantic) : semantic[i].id \in index
  /\ LET result_limit == IF n_results < 1 THEN 1 ELSE IF n_results > 50 THEN 50
                                                ELSE n_results
         paths == CachedIndexedPaths(ok)
         ranked == RankSearchResults(archive, paths, query_text, semantic)
     IN search' = [paths |-> paths, fresh |-> TRUE, pc |-> "answered",
                   query_text |-> query_text, n_results |-> n_results,
                   ranked |-> ranked,
                   results |-> FirstN([i \in 1..Len(ranked) |-> ranked[i].absolute_path],
                                      result_limit),
                   existed |-> ExistingPaths(archive)]
  /\ UNCHANGED <<inputVars, storeVars, reconCore, cache, upload, context, planner,
                 handled, lifeVars>>

\* the response is sent; the cache stays
QueryReturns ==
  /\ search.pc = "answered"
  /\ search' = [NoSearch EXCEPT !.paths = search.paths, !.fresh = search.fresh]
  /\ UNCHANGED <<inputVars, storeVars, reconCore, cache, upload, context, planner,
                 handled, lifeVars>>

\* _INDEXED_PATH_CACHE_TTL_SECONDS (123) have passed since the cache was filled
PathCacheExpire ==
  /\ search.fresh
  /\ search' = [search EXCEPT !.fresh = FALSE]
  /\ UNCHANGED <<inputVars, storeVars, reconCore, cache, upload, context, planner,
                 handled, lifeVars>>

InitSearch ==
  /\ InitInput
  /\ archive = {[path |-> f, size |-> 1] : f \in SearchFiles}
  /\ index \in {{}, SearchIds}
  /\ faults = FALSE
  /\ InitRecon

NextSearch ==
  \/ \E q \in SearchQueries, n \in SearchCounts, semantic \in SemanticResults,
        ok \in BOOLEAN : Query(q, n, semantic, ok)
  \/ QueryReturns
  \/ PathCacheExpire
  \/ \E f \in SearchFiles : ArEnvDeleteFile(f)
  \/ ArchiveHandle

SpecSearch == InitSearch /\ [][NextSearch]_vars

(***************************************************************************)
(* Properties of the input watcher                                         *)
(***************************************************************************)
\* an entry of the in-flight sets is held for the task's path
InFlight(i) ==
  IF task[i].kind = "file"
  THEN task[i].path \in processing_files
  ELSE task[i].path \in processing_folders \cup folders_being_processed

\* the task is on the pool (queued or on a thread), or the coroutine it
\* started has not finished yet
TaskLive(i) == task[i].pc \notin {"none", "done"}
PipeLive(i) == pipe[i].pc \notin {"none", "done"}

\* C1: at most one settle+ingest task, the ingestion pipeline it started
\* included until that pipeline has finished, is active for a path, and the
\* path's in-flight entry is held for as long as the task is active.
C1_OneActiveTaskPerPath ==
  /\ \A i \in TaskIds : (TaskLive(i) \/ PipeLive(i)) => InFlight(i)
  /\ \A i, j \in TaskIds :
       /\ TaskLive(i) \/ PipeLive(i)
       /\ TaskLive(j) \/ PipeLive(j)
       /\ task[i].path = task[j].path
       => i = j

\* C2: a create event for a path that is in the in-flight set (a file) or in
\* the folder-processing sets (a folder) changes neither the pool's queue nor
\* any task nor any pipeline, and no two tasks that have not reached the end
\* of their finally block share a path: test and insertion are one step.
C2_DuplicateCreateStartsNothing ==
  /\ [](\A i, j \in TaskIds :
          TaskLive(i) /\ TaskLive(j) /\ task[i].path = task[j].path => i = j)
  /\ [][\A p \in InPaths :
          /\ nEvents' = nEvents + 1
          /\ lastEvent'.path = p
          /\ \/ p \in InFiles /\ p \in processing_files
             \/ p \in InDirs /\ p \in processing_folders \cup folders_being_processed
          => /\ nTasks' = nTasks
             /\ queue' = queue
             /\ task' = task
             /\ pipe' = pipe]_vars

\* a create event arrived for a file whose task was still running and was dropped
C2_Witness ==
  /\ lastEvent.outcome = "duplicate"
  /\ lastEvent.path \in InFiles
  /\ \E i \in TaskIds : TaskLive(i) /\ task[i].path = lastEvent.path

\* C3: a task has removed its source only if every index write of its
\* ingestion succeeded.
C3_RemovedOnlyAfterIndexWrite ==
  \A i \in TaskIds : task[i].removed => pipe[i].indexed

\* the ingestion of task i failed: it did not finish within the timeout, it
\* returned no path, or an index write of it failed
IngestionFailed(i) ==
  \/ task[i].outcome \in {"failed", "timeout"}
  \/ pipe[i].pc = "done" /\ pipe[i].result = None
  \/ pipe[i].pc = "done" /\ ~pipe[i].indexed

\* C4: a task whose ingestion failed or timed out does not remove its source,
\* and a task is submitted only by a create event: a finished task stays
\* finished.
C4_FailedIngestionKeepsSource ==
  /\ [](\A i \in TaskIds : IngestionFailed(i) => ~task[i].removed)
  /\ [][/\ nTasks' # nTasks => nEvents' = nEvents + 1
        /\ \A i \in TaskIds : task[i].pc = "done" => task'[i] = task[i]]_vars

\* the part of C4 that does not involve the index write: a task removes its
\* source only when result() returned a path, a task is submitted only by a
\* create event, and a finished task stays finished
C4_NoPathNoRemoval ==
  /\ [](\A i \in TaskIds : task[i].removed => task[i].outcome = "ok")
  /\ [][/\ nTasks' # nTasks => nEvents' = nEvents + 1
        /\ \A i \in TaskIds : task[i].pc = "done" => task'[i] = task[i]]_vars

\* C13: while a folder is in folders_being_processed, no task is submitted
\* for a file or a sub-directory beneath it
C13_NoTaskBeneathFolderInProgress ==
  [][\A p \in AllInPaths :
       (\E folder \in folders_being_processed : IsUnder(p, folder))
         => ~(nTasks' = nTasks + 1 /\ task'[nTasks + 1].path = p)]_vars

\* C14: a file create event is skipped as "parent folder being processed"
\* only when the file is a folder in folders_being_processed or lies beneath
\* one
C14_SkippedOnlyBeneathFolderInProgress ==
  [][(nEvents' = nEvents + 1 /\ lastEvent'.outcome = "folder_in_progress")
       => \E folder \in folders_being_processed :
             lastEvent'.path = folder \/ IsUnder(lastEvent'.path, folder)]_vars

\* C12: a path put into processing_files, processing_folders or
\* folders_being_processed is taken out again: whatever the outcome of its
\* task, no entry stays for ever (an entry is always taken out later exactly
\* when the path is out of the set again and again)
C12_EveryEntryRemoved ==
  \A p \in InPaths :
    /\ []<>(p \notin processing_files)
    /\ []<>(p \notin processing_folders)
    /\ []<>(p \notin folders_being_processed)

\* a file task whose wait timed out has ended and its entry is gone, and a
\* folder task has ended with both its entries gone
C12_Witness ==
  /\ \E i \in TaskIds :
       /\ task[i].kind = "file" /\ task[i].pc = "done" /\ task[i].outcome = "timeout"
       /\ task[i].path \notin processing_files
  /\ \E i \in TaskIds :
       /\ task[i].kind = "folder" /\ task[i].pc = "done"
       /\ task[i].path \notin processing_folders \cup folders_being_processed

(***************************************************************************)
(* Properties of a reconciliation pass                                     *)
(***************************************************************************)
\* C20: the counts a pass reports when it ends are the numbers of ids it
\* has upserted into the index and deleted from it
C20_CountsAreWhatThePassWrote ==
  \A e \in Executors :
    pass[e].pc = "end" => /\ pass[e].added_count = Cardinality(pass[e].upserted)
                          /\ pass[e].removed_count = Cardinality(pass[e].deleted)

\* C6: when a pass ends during which nobody else changed the archive or the
\* index, the index ids are exactly the archive's files, even when every
\* index operation of the pass succeeded.
C6_PassEndsConsistent ==
  \A e \in Executors :
     pass[e].pc = "end" /\ ~pass[e].disturbed /\ PassAllOk(pass[e])
     => index = ArchivePaths

\* the pass of e began right after an undisturbed pass had returned, with no
\* change of archive or index in between or during it
SecondPass(e) == pass[e].afterClean /\ ~pass[e].disturbed

FairArchive ==
  /\ WF_vars(ArchiveHandle)
  /\ \A t \in ThreadIds :
       /\ WF_vars(TimerFire(t))
       /\ WF_vars(WorkerLock(t))
       /\ WF_vars(WorkerFinally(t))
       /\ WF_vars(WorkerWake(t))
       /\ WF_vars(PassFs(t))
       /\ WF_vars(PassIdx(t))
       /\ WF_vars(PassAdd(t))
       /\ WF_vars(PassRemove(t))

LiveArchive == SpecArchive /\ FairArchive

(***************************************************************************)
(* Properties of the running system                                        *)
(***************************************************************************)
\* nothing is left to do but for the environment: no event queued, no timer
\* armed, no worker thread alive, no pass in progress
AtRest ==
  /\ arEvents = <<>>
  /\ \A t \in ThreadIds : thr[t].pc \in {"unborn", "cancelled", "exit"}
  /\ PassesInProgress = {}

\* C5: once the system has come to rest, without a restart and without a
\* request to the endpoint, the index ids are the archive's files; stated for
\* the runs in which no index operation failed and no archive file is empty.
C5_IndexMirrorsArchiveAtRest ==
  (AtRest /\ ~faults /\ \A r \in archive : r.size > 0) => index = ArchivePaths

\* C8: at most one reconciliation pass is executing at any time, whoever
\* started it: a worker thread or the endpoint.
C8_NoTwoPassesOverlap == Cardinality(PassesInProgress) <= 1

WorkerPasses == {t \in ThreadIds : pass[t].pc # "idle"}

\* C9: the triggers received while a worker pass is running are followed by
\* a worker pass that starts after that pass has returned (never zero), no
\* second worker pass starts unless a new trigger has arrived (never more
\* than one), and worker passes do not overlap.
C9_BurstCoalescing ==
  /\ [](burst.since <= 1)
  /\ [](Cardinality(WorkerPasses) <= 1)
  /\ (burst.open ~> ~burst.open)

\* two triggers arrived during one pass and their follow-up pass has started
C9_Witness == burst.served = 2 /\ burst.since = 1 /\ ~burst.open

\* index ids under directory d whose file is not in the archive
StaleUnder(d) == {id \in index \ ArchivePaths : StartsWith(id, d)}

ResultLimit(n_results) ==
  IF n_results < 1 THEN 1 ELSE IF n_results > 50 THEN 50 ELSE n_results

\* C21: every path GET /query returns is a file that existed in the archive
\* when it was ranked, has no hidden component, is returned once, and the
\* paths are at most the count asked for, clamped to 1..50
C21_ResultsAreVisibleArchiveFiles ==
  search.pc = "answered" =>
    /\ \A i \in 1..Len(search.results) :
         /\ search.results[i] \in search.existed
         /\ StartsWith(search.results[i], ArchiveDirText \o <<"/">>)
         /\ ~IsHiddenPath(search.results[i])
         /\ \A j \in 1..Len(search.results) :
              search.results[j] = search.results[i] => j = i
    /\ Len(search.results) <= ResultLimit(search.n_results)

\* C22: of two ranked candidates with equal semantic distance, the one whose
\* stem is the query stands before the one whose stem only contains the query
C22_ExactStemAboveSubstring ==
  search.pc = "answered" =>
    \A i, j \in 1..Len(search.ranked) :
      LET query == StrLower(Strip(search.query_text))
          exact == StrLower(PathStem(search.ranked[i].relative_path))
          other == StrLower(PathStem(search.ranked[j].relative_path))
      IN /\ search.ranked[i].distance = search.ranked[j].distance
         /\ exact = query
         /\ other # query /\ Contains(other, query)
         => i < j

(***************************************************************************)
(* Properties of the ingestion beside the upload endpoint                  *)
(***************************************************************************)
\* C23: no ingestion writes over a file that is in the archive; the final
\* path is a free one also when the pipeline of the input watcher and an
\* upload choose their destinations at the same time
C23_IngestionNeverOverwrites == ~upload.overwrote

(***************************************************************************)
(* Properties of the placement context                                     *)
(***************************************************************************)
\* C24: the serialized placement context is never longer than 18000
\* characters; the minimal payload fits whatever the archive holds
C24_ContextWithinBudget == context.pc = "built" => context.chars <= 18000

Handling == arEvents # <<>> /\ arEvents' = Tail(arEvents)

VisibleMove(ev) ==
  ev.kind = "moved" /\ ~ShouldSkipPath(ev.src_path) /\ ~ShouldSkipPath(ev.dest_path)

\* C26: when the watcher has handled the move of a file between two visible
\* paths of the archive and the file is at the destination (empty or not),
\* the index holds the new id and not the old one
C26_FileMoveFollowed ==
  [][LET ev == Head(arEvents)
     IN /\ Handling
        /\ VisibleMove(ev) /\ ~ev.is_directory /\ DestInArchive(ev.dest_path)
        /\ ev.dest_path \in ArchivePaths
        => ev.dest_path \in index' /\ ev.src_path \notin index']_vars

\* C27: when the watcher has handled the move of a directory within the
\* archive, every visible file under the new directory has its new id in the
\* index and its old id not, and the ids outside both directories are as before
C27_DirMoveFollowed ==
  [][LET ev == Head(arEvents)
     IN /\ Handling
        /\ VisibleMove(ev) /\ ev.is_directory /\ DestInArchive(ev.dest_path)
        => /\ \A q \in GetAllFilesInDir(archive, ev.dest_path) :
                ~ShouldSkipPath(q)
                => q \in index' /\ Rebase(q, ev.dest_path, ev.src_path) \notin index'
           /\ \A id \in index \cup index' :
                ~StartsWith(id, ev.src_path) /\ ~StartsWith(id, ev.dest_path)
                => (id \in index <=> id \in index')]_vars

\* what C28 says of an event handled as a move out of the archive: for a
\* file the source id is gone and no id has come; for a directory a
\* reconciliation is scheduled and the index is left alone
MoveOutIsDelete(ev) ==
  IF ev.is_directory
  THEN pending' /\ nTrig' = nTrig + 1 /\ timerRef' # timerRef /\ index' = index
  ELSE ev.src_path \notin index' /\ index' \subseteq index

DeletesExactly(id) ==
  /\ index' = index \ {id}
  /\ UNCHANGED <<pending, running, nTrig, timerRef, thr>>

C30_ModifiedFileStaysIndexed ==
  [][LET ev == Head(arEvents)
     IN /\ Handling
        /\ ev.kind = "modified" /\ ~ev.is_directory /\ ~ShouldSkipPath(ev.src_path)
        /\ ev.src_path \in ArchivePaths
        => ev.src_path \in index']_vars

(***************************************************************************)
(* Properties of the paths the archive watcher ignores                     *)
(***************************************************************************)
UnixTimestamps == {"1700"}

\* temp_<name>_<unixts>, the name of a staging directory
IsStagingName(name) ==
  /\ Len(name) >= 4
  /\ name[1] = "temp_" /\ name[Len(name) - 1] = "_" /\ name[Len(name)] \in UnixTimestamps

\* the path lies in the index's storage directory, has a dot-prefixed name,
\* or is a staging directory or lies beneath one
IsIgnoredPath(path) ==
  \/ path[1].n = <<".chromadb">>
  \/ path[Len(path)].n[1] = "."
  \/ \E k \in 1..Len(path) : IsStagingName(path[k].n)

\* the event is about an ignored path of the archive: its source, or the
\* destination of a move within the archive
IsIgnoredEvent(ev) ==
  \/ IsIgnoredPath(ev.src_path)
  \/ ev.kind = "moved" /\ DestInArchive(ev.dest_path) /\ IsIgnoredPath(ev.dest_path)

\* C31: handling an event about an ignored path makes no index upsert and no
\* index delete (none is attempted, so none can fail either) and schedules
\* no reconciliation
C31_IgnoredPathsLeftAlone ==
  [][Handling /\ IsIgnoredEvent(Head(arEvents))
     => /\ index' = index /\ faults' = faults
        /\ UNCHANGED <<pending, running, nTrig, timerRef, thr>>]_vars

\* an event beneath a staging directory whose file has an index record has
\* been handled, and so has nothing else
C31_Witness ==
  /\ handled.event.kind \in {"modified", "deleted", "moved"}
  /\ \E k \in 1..Len(handled.event.src_path) : IsStagingName(handled.event.src_path[k].n)
  /\ handled.event.src_path \in handled.index
  /\ arEvents = <<>>
  /\ index = handled.index

(***************************************************************************)
(* Properties of moves and renames                                         *)
(***************************************************************************)
\* C11: after a rename that on_moved reported as done (a single file moved,
\* or one file of a renamed directory), the old id and the new id are not
\* both in the index
C11_RenameNeverLeavesBoth ==
  \A m \in moved : m.updated => ~(m.old \in index /\ m.new \in index)

(***************************************************************************)
(* Properties of the planned placement                                     *)
(***************************************************************************)
\* C15: the folder in which an item is placed, file or folder, has no "."
\* and no ".." segment, whatever the suggestion was
C15_NoDotSegments ==
  plan.pc = "planned" =>
    \A k \in 1..Len(PlacementFolder(plan.final_path)) :
       PlacementFolder(plan.final_path)[k] \notin {<<".">>, <<".", ".">>}

\* C16: the folder in which a file is placed has at most 7 segments,
\* whatever the suggestion was
C16_AtMostSevenSegments ==
  (plan.pc = "planned" /\ plan.kind = "file") =>
    Len(PlacementFolder(plan.final_path)) <= MAX_FOLDER_PATH_DEPTH

\* C17: no segment of the folder in which a file is placed is the file's
\* name, whatever the suggestion was
C17_NoFilenameSegment ==
  (plan.pc = "planned" /\ plan.kind = "file") =>
    \A k \in 1..Len(PlacementFolder(plan.final_path)) :
       PlacementFolder(plan.final_path)[k] # plan.filename

\* C36: the folder sanitize_path_suggestion returns for a file is never
\* empty, whatever the suggestion was: empty, made of nothing usable, or
\* the file's name alone
C36_PlannedFolderNeverEmpty ==
  (plan.pc = "planned" /\ plan.kind = "file") => plan.sanitized # <<>>

(***************************************************************************)
(* Properties of the settle loop                                           *)
(***************************************************************************)
\* task i makes the existence test at the start of _delayed_process, or the
\* one after a sleep of the settle loop
PollsFile(i) ==
  /\ task[i].kind = "file" /\ task[i].pc \in {"start", "sleep"}
  /\ task'[i] # task[i]

\* C32: a file task whose existence test finds the file gone goes straight to
\* its finally block without a coroutine of the pipeline (which is what
\* records move-log entries) and without a failed outcome; the finally block
\* of a task that never had a coroutine takes the path out of
\* processing_files, and the task does nothing afterwards
C32_VanishedFileDropped ==
  [][\A i \in TaskIds :
       /\ PollsFile(i) /\ ~Exists(task[i].path)
          => /\ task'[i].pc = "finally" /\ task'[i].outcome = ""
             /\ pipe'[i].pc = "none"
       /\ task[i].kind = "file" /\ task[i].pc = "finally" /\ pipe[i].pc = "none"
          /\ task'[i] # task[i]
          => /\ task'[i].pc = "done" /\ task'[i].outcome = ""
             /\ task[i].path \notin processing_files'
             /\ pipe'[i].pc = "none"
       /\ task[i].kind = "file" /\ task[i].pc = "done" /\ pipe[i].pc = "none"
          => task'[i] = task[i] /\ pipe'[i].pc = "none"]_vars

\* a file task has ended that found its file gone at the first test: no
\* coroutine, no outcome, the path in no in-flight set
C32_Witness ==
  \E i \in TaskIds :
     /\ task[i].kind = "file" /\ task[i].pc = "done"
     /\ task[i].initial_size = 0 - 1
     /\ pipe[i].pc = "none" /\ task[i].outcome = ""
     /\ task[i].path \notin processing_files

\* the settle loop of C33 as steps: the first poll is followed by a sleep; a
\* poll after a sleep leaves the loop when it returns the size the poll
\* before it returned, and is followed by another sleep when it does not;
\* the content is handed to the pipeline only by a task that left the loop so
SettleBeforeRead(i) ==
  /\ PollsFile(i) /\ Exists(task[i].path) /\ task[i].pc = "start"
     => task'[i].pc = "sleep" /\ task'[i].current_size = inFS[task[i].path]
  /\ PollsFile(i) /\ Exists(task[i].path) /\ task[i].pc = "sleep"
     => /\ task'[i].current_size = inFS[task[i].path]
        /\ task'[i].pc = IF inFS[task[i].path] = task[i].current_size
                          THEN "check" ELSE "sleep"
  /\ task[i].kind = "file" /\ pipe[i].pc = "none" /\ pipe'[i].pc # "none"
     => /\ task[i].pc = "read"
        /\ task[i].initial_size = task[i].current_size /\ task[i].current_size >= 0

\* C33: the content of an input file is read and handed to the pipeline only
\* after two consecutive size polls returned the same size, the task polls
\* again while the size changes, and the settle loop ends once the size has
\* stopped changing or the file is gone
C33_SettleBeforeRead ==
  /\ [][\A i \in TaskIds : SettleBeforeRead(i)]_vars
  /\ \A i \in TaskIds : []<>(task[i].pc # "sleep")

\* a task has handed a file to the pipeline after two polls of the same size
C33_Witness ==
  \E i \in TaskIds :
     /\ task[i].kind = "file" /\ task[i].pc = "wait" /\ pipe[i].pc = "llm"
     /\ task[i].initial_size = task[i].current_size
     /\ task[i].current_size = MaxSize

(***************************************************************************)
(* Properties of the worker pool                                           *)
(***************************************************************************)
\* a task that waits in the pool's queue has its path in the in-flight set
\* its on_created filled
QueuedInFlight(i) ==
  task[i].pc = "queued"
  => IF task[i].kind = "file" THEN task[i].path \in processing_files
                               ELSE task[i].path \in folders_being_processed

\* C34: at most 3 tasks of the input handler, of files or of folders, sleeping
\* or not, are being executed at any time; a task that waits is marked
\* in-flight; and every task that waits is started in the end
C34_PoolBounded ==
  /\ [](Cardinality(Running) <= 3 /\ \A i \in TaskIds : QueuedInFlight(i))
  /\ \A i \in TaskIds : []<>(task[i].pc # "queued")

\* three tasks are being executed and a fourth, in flight, waits
C34_Witness ==
  /\ Cardinality(Running) = 3
  /\ \E i \in TaskIds : task[i].pc = "queued" /\ task[i].path \in folders_being_processed

(***************************************************************************)
(* Properties of the order of save and index write in file ingestion       *)
(***************************************************************************)
\* one step of the coroutine of file ingestion i: an index write of it adds
\* exactly the path under which this ingestion has saved the file, and a save
\* that fails ends the ingestion with a None result and no index write
IndexAfterSave(i) ==
  task[i].kind = "file" /\ pipe'[i] # pipe[i]
  => /\ index' # index
        => /\ pipe[i].saved /\ pipe[i].dest \in ArchivePaths
           /\ index' = index \cup {pipe[i].dest}
     /\ faults' # faults => pipe[i].saved /\ pipe[i].dest \in ArchivePaths
     /\ pipe[i].pc = "save" /\ archive' = archive
        => /\ index' = index /\ faults' = faults
           /\ pipe'[i].pc = "done" /\ pipe'[i].result = None

\* C35: file ingestion upserts an index record only for a file it has already
\* saved, under the archive-relative path of the save, and a failed save ends
\* the ingestion as failed with no index write
C35_IndexOnlyAfterSave == [][\A i \in TaskIds : IndexAfterSave(i)]_vars

\* a file ingestion has saved its file and then upserted the id of the save
C35_Witness ==
  \E i \in TaskIds :
     /\ task[i].kind = "file" /\ pipe[i].pc = "done"
     /\ pipe[i].saved /\ pipe[i].indexed
     /\ pipe[i].dest \in index /\ pipe[i].dest \in ArchivePaths
     /\ pipe[i].result = pipe[i].dest

(***************************************************************************)
(* Properties of a reconciliation pass beside writers of the archive       *)
(***************************************************************************)
\* C37: the delete loop of a reconciliation pass takes no id out of the
\* index whose file is in the archive when the delete is issued, whatever
\* was saved and indexed between the two snapshots of the pass
C37_PassDeletesNoExistingFile ==
  [][\A e \in Executors :
       pass[e].pc = "remove" /\ pass'[e].pc = "end"
       => (index \ index') \cap ArchivePaths = {}]_vars

(***************************************************************************)
(* Properties of the merge of an ingested folder                           *)
(***************************************************************************)
\* the file rel of the ingested folder has a copy in its place under the
\* destination: under its own name or under the name with a numeric suffix
CopiedUnderDest(rel) ==
  \E r \in archive :
     /\ r.size = MaxSize
     /\ Len(r.path) = Len(MergeDest) + Len(rel)
     /\ SubSeq(r.path, 1, Len(r.path) - 1) = MergeDest \o SubSeq(rel, 1, Len(rel) - 1)
     /\ r.path[Len(r.path)].n = rel[Len(rel)].n

\* C38: when process_folder has returned a path, and so when the watcher
\* has removed the source folder, every non-hidden file the folder held has
\* a copy under the destination, whatever the destination held before
C38_SuccessOnlyWhenAllCopied ==
  merge.result # None =>
    \A rel \in merge.files : ~IsHiddenName(rel[Len(rel)].n) => CopiedUnderDest(rel)

(***************************************************************************)
(* Properties of the restart of the watchers                               *)
(***************************************************************************)
\* the observers of a directory that have not been stopped
Live(kind) == {g \in Gens : watchers[kind][g] \in {"scheduled", "running"}}

\* C39: once restart_file_watcher has been called, whatever the number of
\* calls, exactly one archive observer is current and it is the only one not
\* stopped; an input observer is current exactly when input watching is on,
\* and no other is left unstopped; only the current input handler's pool is
\* open; and no event was handed to the handlers of two generations
C39_OnePairPerWatcher ==
  watchers.calls > 0 =>
    /\ watchers.global_archive_observer # 0
    /\ Live("archive") = {watchers.global_archive_observer}
    /\ (watchers.global_observer # 0) <=> (watchers.WATCH_INPUT_DIR = "on")
    /\ Live("input") = {watchers.global_observer} \ {0}
    /\ \A g \in Gens : watchers.pool[g] = "open" => g = watchers.global_observer
    /\ \A k \in 1..Len(watchers.events) : Cardinality(watchers.events[k].by) <= 1

====
